---- MODULE Spec2Model ----
(***************************************************************************)
(* A model of the simulation core of bevy-dino (src/src/game.rs,           *)
(* src/src/camera.rs): the tile generator, the character controller, the   *)
(* camera follower and the session state machine, as the Bevy schedules    *)
(* run them frame by frame.                                                *)
(*                                                                         *)
(* Numbers.  The program computes in f32.  Lengths and velocities are      *)
(* modelled in fixed point, one hundredth of a world unit (Fx(1) = 100),   *)
(* times in milliseconds.  A product with the frame time is divided by     *)
(* 1000 with \div (floor); f32 rounding itself is not modelled.            *)
(*                                                                         *)
(* Scheduling.  The eleven per-tick systems are added to Update as one     *)
(* tuple with a run condition and no .chain() (game.rs 46-62), so Bevy     *)
(* fixes no order among them: a frame is BeginFrame, which picks the       *)
(* frame's order from env.orders (the tuple order or its reverse), then    *)
(* every scheduled system once in that order, then EndFrame, which applies *)
(* the deferred commands (spawn, despawn, send_event).  NextState values   *)
(* are applied by the StateTransition schedule at the start of the next    *)
(* frame.                                                                  *)
(***************************************************************************)
EXTENDS Integers, Sequences, FiniteSets, TLC

(* ------------------------------------------------------------------ *)
(* Bounds of the model                                                  *)
(* ------------------------------------------------------------------ *)
\* frames in which the per-tick systems run, over the whole behaviour
MaxRunFrames == 3
\* the same, in the behaviours that follow one long jump
MaxAirFrames == 12
\* seeds of the random source explored
MaxSeed == 2
\* grid points per uniform floating-point draw
DrawGrid == 5
\* iterations of the placement loop evaluated per tile before giving up
MaxGenIters == 40
\* sessions played in one behaviour
MaxSessions == 2
\* states of the random source at the start of an iteration of the placement
\* loop, where the draws are chosen freely
MaxDrawSeed == 3
\* iterations of the placement loop followed where the draws are chosen freely
MaxTileIters == 10

(* ------------------------------------------------------------------ *)
(* Program constants                                                    *)
(* ------------------------------------------------------------------ *)
Fx(u) == u * 100
RESOLUTION_WIDTH == Fx(600)
RESOLUTION_HEIGHT == Fx(480)
RUNNING_SPEED == Fx(250)
TargetHeightDefault == Fx(9822)
GameTimerSecs == 200
gravity == Fx(-1200)
max_jump_time == 220
JumpHeightDefault == Fx(1500)
HealthDefault == 100
FrameTimerMs == 70
TransitionTimerMs == 100
TransitionLastFrame == 13
TransitionPauseFrame == 6
ClockExtraSecs == 60
camera_above_center_const == Fx(75)
LevelBound == Fx(1000000)
LandingWindow == Fx(15)
HardLandingSpeed == Fx(-1500)
FallingFrameSpeed == Fx(-200)
DamageBucket == Fx(500)
TileRadius == 2
SoftCap == 4
HardCap == 8

(* ------------------------------------------------------------------ *)
(* Aabb2d                                                               *)
(* ------------------------------------------------------------------ *)
Aabb2d(c, h) == [min |-> <<c[1] - h[1], c[2] - h[2]>>,
                 max |-> <<c[1] + h[1], c[2] + h[2]>>]

\* bevy_math Aabb2d::intersects: closed intervals on both axes
Intersects(a, b) ==
    /\ a.min[1] <= b.max[1] /\ a.max[1] >= b.min[1]
    /\ a.min[2] <= b.max[2] /\ a.max[2] >= b.min[2]

ShiftX(a, dx) == [min |-> <<a.min[1] + dx, a.min[2]>>, max |-> <<a.max[1] + dx, a.max[2]>>]
ShiftY(a, dy) == [min |-> <<a.min[1], a.min[2] + dy>>, max |-> <<a.max[1], a.max[2] + dy>>]

Abs(x) == IF x < 0 THEN -x ELSE x
SeqToSet(q) == {q[n] : n \in DOMAIN q}

\* (p / tile_size).floor() as i32
TileOf(p, size) == p \div size
TileKey(x, y) == <<TileOf(x, RESOLUTION_WIDTH), TileOf(y, RESOLUTION_HEIGHT)>>

\* the 5x5 block of tile keys the generator visits, in visiting order
\* (i outer, j inner, both ascending)
\* the keys of the loops with the bounds cur_j + 2 exclusive (cur_j - 2..cur_j + 2)
NeighbourhoodExclusive(k) ==
    [n \in 1..((2 * TileRadius + 1) * (2 * TileRadius)) |->
        <<k[1] - TileRadius + ((n - 1) \div (2 * TileRadius)),
          k[2] - TileRadius + ((n - 1) % (2 * TileRadius))>>]

Neighbourhood(k) ==
    [n \in 1..((2 * TileRadius + 1) * (2 * TileRadius + 1)) |->
        <<k[1] - TileRadius + ((n - 1) \div (2 * TileRadius + 1)),
          k[2] - TileRadius + ((n - 1) % (2 * TileRadius + 1))>>]

NeighbourKeys(k) == {Neighbourhood(k)[n] : n \in DOMAIN Neighbourhood(k)}

(* ------------------------------------------------------------------ *)
(* The random source                                                    *)
(* rand::rng() is a seeded generator: a state that every draw advances. *)
(* It is modelled as a Lehmer generator; the seed is an input.          *)
(* ------------------------------------------------------------------ *)
RngModulus == 32749
RngMultiplier == 219
RngNext(s) == (s * RngMultiplier) % RngModulus

\* rng.random_range(0..n) on the state after the draw
Roll(s, n) == s % n
\* rng.random_range(lo..hi) for floats: lo included, hi excluded
Uniform(s, lo, hi) == lo + ((hi - lo) * (s % DrawGrid)) \div DrawGrid

(* ------------------------------------------------------------------ *)
(* World generator: spawn_platforms                                     *)
(* A tile under construction is a record                                *)
(*   [platforms, trees : sequences of Obstacle aabbs, in push order;    *)
(*    apples, clocks   : sets of pickup aabbs spawned with the tile;    *)
(*    rng              : the state of the random source;                *)
(*    done             : the placement loop has reached a break]        *)
(* ------------------------------------------------------------------ *)
PlatformHalf == <<Fx(50), Fx(10)>>
TreeHalf == <<Fx(25), Fx(190)>>
PickupHalf == <<Fx(8), Fx(8)>>

EmptyTile(s) == [platforms |-> <<>>, trees |-> <<>>, apples |-> {}, clocks |-> {},
                 rng |-> s, done |-> FALSE]

\* the first obstacle with its pickup centred on the parent's centre
PlaceFirstPickupOnParent(i, j, st) ==
    LET s1 == RngNext(st.rng)
        s2 == RngNext(s1)
        s3 == RngNext(s2)
        s4 == RngNext(s3)
    IN  IF Roll(s1, 2) = 0
        THEN LET platform_x == i * RESOLUTION_WIDTH
                               + Uniform(s2, Fx(100), RESOLUTION_WIDTH - Fx(100))
                 platform_y == j * RESOLUTION_HEIGHT
                               + Uniform(s3, (0 - RESOLUTION_HEIGHT) \div 2 + Fx(20),
                                             RESOLUTION_HEIGHT \div 2 - Fx(20))
                 obstacle == Aabb2d(<<platform_x, platform_y>>, PlatformHalf)
             IN  [st EXCEPT !.platforms = Append(@, obstacle),
                            !.clocks = IF Roll(s4, 16) = 0
                                       THEN @ \cup {Aabb2d(<<platform_x,
                                                             platform_y>>,
                                                           PickupHalf)}
                                       ELSE @,
                            !.rng = s4]
        ELSE LET platform_x == i * RESOLUTION_WIDTH
                               + Uniform(s2, Fx(50), RESOLUTION_WIDTH - Fx(50))
                 platform_y == j * RESOLUTION_HEIGHT
                               + Uniform(s3, (0 - RESOLUTION_HEIGHT) \div 2 + Fx(190),
                                             RESOLUTION_HEIGHT \div 2 - Fx(190))
                 obstacle == Aabb2d(<<platform_x, platform_y>>, TreeHalf)
             IN  [st EXCEPT !.trees = Append(@, obstacle),
                            !.apples = IF Roll(s4, 2) = 0
                                       THEN @ \cup {Aabb2d(<<platform_x,
                                                             platform_y>>,
                                                           PickupHalf)}
                                       ELSE @,
                            !.rng = s4]

\* total_obstacles == 0: the first obstacle of the tile (game.rs 628-734)
PlaceFirst(i, j, st) ==
    LET s1 == RngNext(st.rng)
        s2 == RngNext(s1)
        s3 == RngNext(s2)
        s4 == RngNext(s3)
    IN  IF Roll(s1, 2) = 0
        THEN LET platform_x == i * RESOLUTION_WIDTH
                               + Uniform(s2, Fx(100), RESOLUTION_WIDTH - Fx(100))
                 platform_y == j * RESOLUTION_HEIGHT
                               + Uniform(s3, (0 - RESOLUTION_HEIGHT) \div 2 + Fx(20),
                                             RESOLUTION_HEIGHT \div 2 - Fx(20))
                 obstacle == Aabb2d(<<platform_x, platform_y>>, PlatformHalf)
             IN  [st EXCEPT !.platforms = Append(@, obstacle),
                            !.clocks = IF Roll(s4, 16) = 0
                                       THEN @ \cup {Aabb2d(<<platform_x,
                                                             platform_y + Fx(20) \div 2 + Fx(8)>>,
                                                           PickupHalf)}
                                       ELSE @,
                            !.rng = s4]
        ELSE LET platform_x == i * RESOLUTION_WIDTH
                               + Uniform(s2, Fx(50), RESOLUTION_WIDTH - Fx(50))
                 platform_y == j * RESOLUTION_HEIGHT
                               + Uniform(s3, (0 - RESOLUTION_HEIGHT) \div 2 + Fx(190),
                                             RESOLUTION_HEIGHT \div 2 - Fx(190))
                 obstacle == Aabb2d(<<platform_x, platform_y>>, TreeHalf)
             IN  [st EXCEPT !.trees = Append(@, obstacle),
                            !.apples = IF Roll(s4, 2) = 0
                                       THEN @ \cup {Aabb2d(<<platform_x,
                                                             platform_y + Fx(380) \div 2 + Fx(8)>>,
                                                           PickupHalf)}
                                       ELSE @,
                            !.rng = s4]

\* `for existing in &list { roll 0..50; if roll == 0 { continue } ...; break }`:
\* the index of the first existing member whose roll is not 0 (0 if none),
\* and the random source after the rolls
RECURSIVE FirstNotSkipped(_, _, _)
FirstNotSkipped(len, n, s) ==
    IF n > len THEN [idx |-> 0, rng |-> s]
    ELSE LET s1 == RngNext(s)
         IN  IF Roll(s1, 50) = 0 THEN FirstNotSkipped(len, n + 1, s1)
             ELSE [idx |-> n, rng |-> s1]

\* the platform branch giving every platform it places a time extender
ExtendPlatformsWithClock(st) ==
    LET f == FirstNotSkipped(Len(st.platforms), 1, st.rng)
        s1 == RngNext(f.rng)
        s2 == RngNext(s1)
    IN  IF f.idx = 0 THEN [st EXCEPT !.rng = f.rng]
        ELSE LET existing_platform == st.platforms[f.idx]
                 platform_x == existing_platform.min[1] + Uniform(s1, Fx(-150), Fx(150))
                 platform_y == existing_platform.min[2] + Uniform(s2, Fx(-400), Fx(400))
             IN  [st EXCEPT !.platforms = Append(@, Aabb2d(<<platform_x, platform_y>>,
                                                          PlatformHalf)),
                            !.clocks = @ \cup {Aabb2d(<<platform_x,
                                                        platform_y + Fx(20) \div 2 + Fx(8)>>,
                                                      PickupHalf)},
                            !.rng = s2]

\* roll == 0: a platform relative to an existing platform (game.rs 741-778)
ExtendPlatforms(st) ==
    LET f == FirstNotSkipped(Len(st.platforms), 1, st.rng)
        s1 == RngNext(f.rng)
        s2 == RngNext(s1)
    IN  IF f.idx = 0 THEN [st EXCEPT !.rng = f.rng]
        ELSE LET existing_platform == st.platforms[f.idx]
                 platform_x == existing_platform.min[1] + Uniform(s1, Fx(-150), Fx(150))
                 platform_y == existing_platform.min[2] + Uniform(s2, Fx(-400), Fx(400))
             IN  [st EXCEPT !.platforms = Append(@, Aabb2d(<<platform_x, platform_y>>,
                                                          PlatformHalf)),
                            !.rng = s2]

\* the tree branch falling back on the platforms when the tile has no tree
ExtendTreesFromAnyObstacle(st) ==
    LET existing == IF st.trees = <<>> THEN st.platforms ELSE st.trees
        f == FirstNotSkipped(Len(existing), 1, st.rng)
        s1 == RngNext(f.rng)
        s2 == RngNext(s1)
    IN  IF f.idx = 0 THEN [st EXCEPT !.rng = f.rng]
        ELSE LET existing_obstacle == existing[f.idx]
                 obstacle_x == existing_obstacle.min[1] + Uniform(s1, Fx(-300), Fx(300))
                 obstacle_y == existing_obstacle.min[2] + Uniform(s2, Fx(-400), Fx(150))
             IN  [st EXCEPT !.trees = Append(@, Aabb2d(<<obstacle_x, obstacle_y>>,
                                                      TreeHalf)),
                            !.rng = s2]

\* roll == 1: a tree relative to an existing tree (game.rs 779-811)
ExtendTrees(st) ==
    LET f == FirstNotSkipped(Len(st.trees), 1, st.rng)
        s1 == RngNext(f.rng)
        s2 == RngNext(s1)
    IN  IF f.idx = 0 THEN [st EXCEPT !.rng = f.rng]
        ELSE LET existing_obstacle == st.trees[f.idx]
                 obstacle_x == existing_obstacle.min[1] + Uniform(s1, Fx(-300), Fx(300))
                 obstacle_y == existing_obstacle.min[2] + Uniform(s2, Fx(-400), Fx(150))
             IN  [st EXCEPT !.trees = Append(@, Aabb2d(<<obstacle_x, obstacle_y>>,
                                                      TreeHalf)),
                            !.rng = s2]

\* the pass with the soft cap tested one obstacle early
PlaceIterationStopsEarly(i, j, st) ==
    LET total_obstacles == Len(st.platforms) + Len(st.trees)
        s1 == IF total_obstacles >= SoftCap - 1 THEN RngNext(st.rng) ELSE st.rng
    IN  IF total_obstacles >= SoftCap - 1 /\ Roll(s1, 2) = 0
        THEN [st EXCEPT !.rng = s1, !.done = TRUE]
        ELSE IF total_obstacles >= HardCap
        THEN [st EXCEPT !.rng = s1, !.done = TRUE]
        ELSE LET a == IF total_obstacles = 0
                      THEN PlaceFirst(i, j, [st EXCEPT !.rng = s1])
                      ELSE [st EXCEPT !.rng = s1]
                 s2 == RngNext(a.rng)
             IN  IF Len(a.platforms) = 0 /\ Len(a.trees) = 0 THEN a
                 ELSE IF Roll(s2, 2) = 0
                 THEN ExtendPlatforms([a EXCEPT !.rng = s2])
                 ELSE ExtendTrees([a EXCEPT !.rng = s2])

\* the pass without the test of the hard cap
PlaceIterationUncapped(i, j, st) ==
    LET total_obstacles == Len(st.platforms) + Len(st.trees)
        s1 == IF total_obstacles >= SoftCap THEN RngNext(st.rng) ELSE st.rng
    IN  IF total_obstacles >= SoftCap /\ Roll(s1, 2) = 0
        THEN [st EXCEPT !.rng = s1, !.done = TRUE]
        ELSE LET a == IF total_obstacles = 0
                      THEN PlaceFirst(i, j, [st EXCEPT !.rng = s1])
                      ELSE [st EXCEPT !.rng = s1]
                 s2 == RngNext(a.rng)
             IN  IF Len(a.platforms) = 0 /\ Len(a.trees) = 0 THEN a
                 ELSE IF Roll(s2, 2) = 0
                 THEN ExtendPlatforms([a EXCEPT !.rng = s2])
                 ELSE ExtendTrees([a EXCEPT !.rng = s2])

\* one pass through the body of `loop { ... }` (game.rs 614-812)
PlaceIteration(i, j, st) ==
    LET total_obstacles == Len(st.platforms) + Len(st.trees)
        s1 == IF total_obstacles >= SoftCap THEN RngNext(st.rng) ELSE st.rng
    IN  IF total_obstacles >= SoftCap /\ Roll(s1, 2) = 0
        THEN [st EXCEPT !.rng = s1, !.done = TRUE]
        ELSE IF total_obstacles >= HardCap
        THEN [st EXCEPT !.rng = s1, !.done = TRUE]
        ELSE LET a == IF total_obstacles = 0
                      THEN PlaceFirst(i, j, [st EXCEPT !.rng = s1])
                      ELSE [st EXCEPT !.rng = s1]
                 s2 == RngNext(a.rng)
             IN  IF Len(a.platforms) = 0 /\ Len(a.trees) = 0 THEN a
                 ELSE IF Roll(s2, 2) = 0
                 THEN ExtendPlatforms([a EXCEPT !.rng = s2])
                 ELSE ExtendTrees([a EXCEPT !.rng = s2])

\* the loop, cut after `fuel` iterations (done stays FALSE when it is cut);
\* the state after an iteration is bound as a value (nx), so that it is
\* computed once
RECURSIVE PlaceLoop(_, _, _, _)
PlaceLoop(i, j, st, fuel) ==
    IF st.done \/ fuel = 0 THEN st
    ELSE CHOOSE r \in {PlaceLoop(i, j, nx, fuel - 1) :
                          nx \in {PlaceIteration(i, j, st)}} : TRUE

GenerateTile(i, j, s) == PlaceLoop(i, j, EmptyTile(s), MaxGenIters)

\* the two nested `for` loops over the neighbourhood (game.rs 584-820); w is
\*   [platformTiles, treeTiles : the two caches;
\*    order : tile keys in insertion order;
\*    fresh : keys inserted by this call; apples, clocks : pickups spawned by it;
\*    rng; cut : some placement loop was cut by MaxGenIters];
\* the tile t and the record nw passed on are bound as values, so that each
\* is computed once
\* the loops with the caches tested for the key of the tile to the right
RECURSIVE GenerateRegionWrongKey(_, _, _)
GenerateRegionWrongKey(keys, n, w) ==
    IF n > Len(keys) THEN w
    ELSE LET k == keys[n]
             right == <<k[1] + 1, k[2]>>
         IN  IF right \in DOMAIN w.platformTiles \/ right \in DOMAIN w.treeTiles
             THEN GenerateRegionWrongKey(keys, n + 1, w)
             ELSE CHOOSE r \in
                    {GenerateRegionWrongKey(keys, n + 1, nw) : nw \in
                       {[platformTiles |-> (k :> t.platforms) @@ w.platformTiles,
                         treeTiles |-> (k :> t.trees) @@ w.treeTiles,
                         order |-> Append(w.order, k),
                         fresh |-> w.fresh \cup {k},
                         apples |-> w.apples \cup t.apples,
                         clocks |-> w.clocks \cup t.clocks,
                         rng |-> t.rng,
                         cut |-> w.cut \/ ~t.done] :
                        t \in {GenerateTile(k[1], k[2], w.rng)}}} : TRUE

RECURSIVE GenerateRegion(_, _, _)
GenerateRegion(keys, n, w) ==
    IF n > Len(keys) THEN w
    ELSE LET k == keys[n]
         IN  IF k \in DOMAIN w.platformTiles \/ k \in DOMAIN w.treeTiles
             THEN GenerateRegion(keys, n + 1, w)
             ELSE CHOOSE r \in
                    {GenerateRegion(keys, n + 1, nw) : nw \in
                       {[platformTiles |-> (k :> t.platforms) @@ w.platformTiles,
                         treeTiles |-> (k :> t.trees) @@ w.treeTiles,
                         order |-> Append(w.order, k),
                         fresh |-> w.fresh \cup {k},
                         apples |-> w.apples \cup t.apples,
                         clocks |-> w.clocks \cup t.clocks,
                         rng |-> t.rng,
                         cut |-> w.cut \/ ~t.done] :
                        t \in {GenerateTile(k[1], k[2], w.rng)}}} : TRUE

(* ------------------------------------------------------------------ *)
(* Character: the Dino component with its Transform and sprite index    *)
(*   x, y            Transform.translation                              *)
(*   aabb            Dino.aabb                                          *)
(*   timer           elapsed time of the repeating 0.07 s frame timer   *)
(*   hold            frame_hold_counter[0].1 (the entry is (21, _, 1))  *)
(*   index           the sprite's texture atlas index                   *)
(* ------------------------------------------------------------------ *)
DinoHalf == <<Fx(32), Fx(32)>>
HoldFrame == 21
HoldTicks == 1

\* Dino::default() with the default Transform (game.rs 497-511, 903-921)
DinoDefault ==
    [present |-> TRUE, x |-> 0, y |-> 0,
     velocity |-> <<0, 0>>,
     aabb |-> Aabb2d(<<0, 0>>, DinoHalf),
     grounded |-> FALSE, jumping |-> FALSE, jump_time |-> 0,
     jump_height |-> JumpHeightDefault,
     attacking |-> FALSE, can_attack |-> FALSE,
     hold |-> 0, idle_frame_forward |-> TRUE,
     health |-> HealthDefault, timer |-> 0, index |-> 0]

NoDino == [DinoDefault EXCEPT !.present = FALSE]

\* the platform every session starts above (game.rs 547-563)
StartPlatform == Aabb2d(<<0, (0 - RESOLUTION_HEIGHT) \div 2 + Fx(20)>>, <<Fx(150), Fx(10)>>)

\* the damage with the quotient rounded up
FallDamageCeiling(vy) ==
    (100 \div 5) * (((Abs(vy) + DamageBucket - 1) \div DamageBucket) - 2)

\* 100 / 5 * ((velocity.y / 500.).abs().floor() as i32 - 2)   (game.rs 1019)
FallDamage(vy) == (100 \div 5) * ((Abs(vy) \div DamageBucket) - 2)

\* the landing that keeps the vertical velocity
LandOnKeepsVelocity(r, platform) ==
    LET d == r.d
    IN  IF d.aabb.max[1] < platform.min[1] \/ d.aabb.min[1] > platform.max[1] THEN r
        ELSE IF ~(d.velocity[2] <= 0) THEN r
        ELSE IF d.aabb.min[2] >= platform.max[2] + LandingWindow THEN r
        ELSE IF d.aabb.min[2] < platform.max[2] THEN r
        ELSE LET dino_height == d.aabb.max[2] - d.aabb.min[2]
                 dino_new_y == platform.max[2] + dino_height \div 2
             IN  [d |-> [d EXCEPT
                           !.y = dino_new_y,
                           !.aabb = [min |-> <<d.aabb.min[1], platform.max[2]>>,
                                     max |-> <<d.aabb.max[1], platform.max[2] + dino_height>>],
                           !.health = IF d.velocity[2] < HardLandingSpeed
                                      THEN @ - FallDamage(d.velocity[2]) ELSE @,
                           !.grounded = TRUE],
                  landed |-> TRUE]

\* the landing with the damage applied from velocity.y = -1500 on
LandOnInclusive(r, platform) ==
    LET d == r.d
    IN  IF d.aabb.max[1] < platform.min[1] \/ d.aabb.min[1] > platform.max[1] THEN r
        ELSE IF ~(d.velocity[2] <= 0) THEN r
        ELSE IF d.aabb.min[2] >= platform.max[2] + LandingWindow THEN r
        ELSE IF d.aabb.min[2] < platform.max[2] THEN r
        ELSE LET dino_height == d.aabb.max[2] - d.aabb.min[2]
                 dino_new_y == platform.max[2] + dino_height \div 2
             IN  [d |-> [d EXCEPT
                           !.y = dino_new_y,
                           !.aabb = [min |-> <<d.aabb.min[1], platform.max[2]>>,
                                     max |-> <<d.aabb.max[1], platform.max[2] + dino_height>>],
                           !.health = IF d.velocity[2] <= HardLandingSpeed
                                      THEN @ - FallDamage(d.velocity[2]) ELSE @,
                           !.velocity = <<d.velocity[1], 0>>,
                           !.grounded = TRUE],
                  landed |-> TRUE]

\* the body of `for platform in platforms.iter()` for one platform
\* (game.rs 976-1028); r is [d : the dino, landed : BOOLEAN]
LandOn(r, platform) ==
    LET d == r.d
    IN  IF d.aabb.max[1] < platform.min[1] \/ d.aabb.min[1] > platform.max[1] THEN r
        ELSE IF ~(d.velocity[2] <= 0) THEN r
        ELSE IF d.aabb.min[2] >= platform.max[2] + LandingWindow THEN r
        ELSE IF d.aabb.min[2] < platform.max[2] THEN r
        ELSE LET dino_height == d.aabb.max[2] - d.aabb.min[2]
                 dino_half_height == dino_height \div 2
                 dino_new_y == platform.max[2] + dino_half_height
             IN  [d |-> [d EXCEPT
                           !.y = dino_new_y,
                           !.aabb = [min |-> <<d.aabb.min[1], platform.max[2]>>,
                                     max |-> <<d.aabb.max[1], platform.max[2] + dino_height>>],
                           !.health = IF d.velocity[2] < HardLandingSpeed
                                      THEN @ - FallDamage(d.velocity[2]) ELSE @,
                           !.velocity = <<d.velocity[1], 0>>,
                           !.grounded = TRUE],
                  landed |-> TRUE]

RECURSIVE LandLoop(_, _, _)
LandLoop(r, platforms, n) ==
    IF n > Len(platforms) THEN r
    ELSE LandLoop(LandOn(r, platforms[n]), platforms, n + 1)

\* the platform is not skipped: the else branch of game.rs 992 is taken
Qualifies(d, platform) ==
    /\ ~(d.aabb.max[1] < platform.min[1] \/ d.aabb.min[1] > platform.max[1])
    /\ d.velocity[2] <= 0
    /\ ~(d.aabb.min[2] >= platform.max[2] + LandingWindow)
    /\ ~(d.aabb.min[2] < platform.max[2])

\* the number of times the loop takes the snap branch
RECURSIVE SnapCount(_, _, _)
SnapCount(r, platforms, n) ==
    IF n > Len(platforms) THEN 0
    ELSE (IF Qualifies(r.d, platforms[n]) THEN 1 ELSE 0)
         + SnapCount(LandOn(r, platforms[n]), platforms, n + 1)

\* velocity.y after `if !dino.grounded { velocity.y += gravity * dt }`
ApplyGravity(d, delta) ==
    IF ~d.grounded THEN d.velocity[2] + (gravity * delta) \div 1000 ELSE d.velocity[2]

\* the dino after gravity and the velocity step, before the landing checks
\* (game.rs 949-960)
Integrate(d, delta) ==
    LET vy == ApplyGravity(d, delta)
        dy == (vy * delta) \div 1000
    IN  [d EXCEPT !.velocity = <<d.velocity[1], vy>>,
                  !.y = @ + dy,
                  !.aabb = ShiftY(@, dy)]

\* the platforms the loop does not skip for lack of horizontal overlap; the
\* loop never changes the dino's horizontal extent
Overlapping(d, platforms) ==
    SelectSeq(platforms,
              LAMBDA p : ~(d.aabb.max[1] < p.min[1] \/ d.aabb.min[1] > p.max[1]))

\* the loop over the platform entities and the `landed` flag after it
Landing(d, platforms, delta) ==
    LET moved == Integrate(d, delta)
    IN  LandLoop([d |-> moved, landed |-> FALSE], Overlapping(moved, platforms), 1)

\* dino_gravity as a function of the dino, the platform entities in query
\* order, and the frame time (game.rs 940-1034)
DinoGravity(d, platforms, delta) ==
    LET r == Landing(d, platforms, delta)
    IN  IF ~r.landed THEN [r.d EXCEPT !.grounded = FALSE] ELSE r.d

\* the snaps of dino_gravity on (d, platforms, delta)
Snaps(d, platforms, delta) ==
    SnapCount([d |-> Integrate(d, delta), landed |-> FALSE], platforms, 1)

\* some platform produced a landing in dino_gravity on (d, platforms, delta)
Landed(d, platforms, delta) == Landing(d, platforms, delta).landed

(* ------------------------------------------------------------------ *)
(* arrow_move (game.rs 1037-1285)                                       *)
(* keys is [jump : Space was just pressed, space : Space is pressed,    *)
(*          dir : 1 right, -1 left, 0 none]                             *)
(* ------------------------------------------------------------------ *)
RECURSIVE SqrtBetween(_, _, _)
SqrtBetween(n, lo, hi) ==
    IF lo >= hi THEN lo
    ELSE LET mid == (lo + hi + 1) \div 2
         IN  IF mid * mid <= n THEN SqrtBetween(n, mid, hi) ELSE SqrtBetween(n, lo, mid - 1)

ISqrt(n) == SqrtBetween(n, 0, 46340)

\* (2.0 * jump_height * gravity.abs()).sqrt() * max_jump_time, in fixed point:
\* the root is taken in tenths of a unit to stay inside 32 bits
JumpAcceleration(jump_height) ==
    (ISqrt(2 * (jump_height \div 100) * (Abs(gravity) \div 100) * 100) * max_jump_time) \div 100

\* a jump start that does not ask for the ground
StartJumpInMidAir(d, keys) ==
    IF keys.jump
    THEN [d EXCEPT !.jumping = TRUE, !.jump_time = 0, !.grounded = FALSE,
                   !.attacking = FALSE, !.can_attack = FALSE,
                   !.jump_height = JumpHeightDefault]
    ELSE d

\* a jump start that leaves can_attack as it is
StartJumpKeepsCanAttack(d, keys) ==
    IF keys.jump /\ d.grounded
    THEN [d EXCEPT !.jumping = TRUE, !.jump_time = 0, !.grounded = FALSE,
                   !.attacking = FALSE, !.jump_height = JumpHeightDefault]
    ELSE d

\* `if just_pressed(Space) && dino.grounded { ... }` (game.rs 1052-1072)
StartJump(d, keys) ==
    IF keys.jump /\ d.grounded
    THEN [d EXCEPT !.jumping = TRUE, !.jump_time = 0, !.grounded = FALSE,
                   !.attacking = FALSE, !.can_attack = FALSE,
                   !.jump_height = JumpHeightDefault]
    ELSE d

\* the thrust branch without the time budget
ContinueJumpNoBudget(d, keys, delta) ==
    IF d.jumping /\ keys.space
    THEN [d EXCEPT !.velocity = <<d.velocity[1], JumpAcceleration(d.jump_height)>>,
                   !.jump_time = @ + delta]
    ELSE [d EXCEPT !.jumping = FALSE]

\* the thrust branch (game.rs 1079-1085)
ContinueJump(d, keys, delta) ==
    IF d.jumping /\ keys.space /\ d.jump_time < max_jump_time
    THEN [d EXCEPT !.velocity = <<d.velocity[1], JumpAcceleration(d.jump_height)>>,
                   !.jump_time = @ + delta]
    ELSE [d EXCEPT !.jumping = FALSE]

\* damped horizontal velocity and the position step (game.rs 1087-1105)
MoveX(d, keys, delta) ==
    LET target_velocity_x == keys.dir * RUNNING_SPEED
        vx == (d.velocity[1] * 95) \div 100 + (target_velocity_x * 5) \div 100
        dx == (vx * delta) \div 1000
    IN  [d EXCEPT !.velocity = <<vx, d.velocity[2]>>,
                  !.x = @ + dx,
                  !.aabb = ShiftX(@, dx)]

\* obstacles.iter().any(|o| dino.aabb.intersects(&o.aabb))
XCollision(d, obstacles) ==
    \E n \in DOMAIN obstacles : Intersects(d.aabb, obstacles[n])

\* an attack starts in this call (game.rs 1119-1120)
AttackStarts(d, keys) ==
    (d.jumping \/ ~d.grounded) /\ keys.jump /\ ~d.attacking /\ d.can_attack

\* the attack animation without its end at frame 24
AttackFrameNeverEnds(d) ==
    IF d.index = HoldFrame
    THEN IF d.hold < HoldTicks THEN [d EXCEPT !.hold = @ + 1]
         ELSE [d EXCEPT !.hold = 0, !.index = @ + 1]
    ELSE [d EXCEPT !.index = @ + 1]

\* one frame-timer tick of the attack animation (game.rs 1167-1187)
AttackFrame(d) ==
    IF d.index = 24 THEN [d EXCEPT !.index = 23, !.attacking = FALSE]
    ELSE IF d.index = HoldFrame
         THEN IF d.hold < HoldTicks THEN [d EXCEPT !.hold = @ + 1]
              ELSE [d EXCEPT !.hold = 0, !.index = @ + 1]
         ELSE [d EXCEPT !.index = @ + 1]

\* one frame-timer tick of the walk cycle (game.rs 1238-1247)
WalkFrame(d) ==
    LET index == IF d.index < 0 THEN 0 ELSE IF d.index > 11 THEN 11 ELSE d.index
    IN  [d EXCEPT !.index = IF index = 11 THEN 0 ELSE index + 1]

\* the idle animation going from 16 to 17 whatever the direction flag
IdleFrameAlwaysForward(d, roll0) ==
    LET index == IF d.index < 12 \/ d.index > 17 THEN 12 ELSE d.index
        d1 == [d EXCEPT !.index = index]
    IN  IF index = 17
        THEN [d1 EXCEPT !.idle_frame_forward = FALSE,
                        !.index = IF roll0 THEN 16 ELSE @]
        ELSE IF index = 16
        THEN [d1 EXCEPT !.index = 17]
        ELSE [d1 EXCEPT !.index = IF roll0 THEN index + 1 ELSE @]

\* one frame-timer tick of the idle animation; roll0 says the random roll
\* of this tick is 0 (game.rs 1250-1282)
IdleFrame(d, roll0) ==
    LET index == IF d.index < 12 \/ d.index > 17 THEN 12 ELSE d.index
        d1 == [d EXCEPT !.index = index]
    IN  IF index = 17
        THEN [d1 EXCEPT !.idle_frame_forward = FALSE,
                        !.index = IF roll0 THEN 16 ELSE @]
        ELSE IF index = 16
        THEN IF d.idle_frame_forward THEN [d1 EXCEPT !.index = 17]
             ELSE [d1 EXCEPT !.idle_frame_forward = TRUE, !.index = 12]
        ELSE [d1 EXCEPT !.index = IF roll0 THEN index + 1 ELSE @]

\* the animation and attack branch in which every attack start counts as a
\* connected hit
AnimateEveryAttackHits(d, keys, x_collision, just_finished, roll0) ==
    IF d.jumping \/ ~d.grounded
    THEN LET a == IF keys.jump /\ ~d.attacking /\ d.can_attack
                  THEN [d EXCEPT !.attacking = TRUE, !.jump_time = 0,
                                 !.jumping = TRUE, !.index = 18]
                  ELSE IF d.attacking
                  THEN IF just_finished THEN AttackFrame(d) ELSE d
                  ELSE IF d.velocity[2] > FallingFrameSpeed
                  THEN [d EXCEPT !.index = 25]
                  ELSE [d EXCEPT !.index = 23]
         IN  [a EXCEPT !.can_attack = TRUE]
    ELSE IF keys.dir # 0
    THEN IF just_finished THEN WalkFrame(d) ELSE d
    ELSE IF just_finished THEN IdleFrame(d, roll0) ELSE d

\* the animation and attack branch (game.rs 1119-1283)
Animate(d, keys, x_collision, just_finished, roll0) ==
    IF d.jumping \/ ~d.grounded
    THEN LET a == IF keys.jump /\ ~d.attacking /\ d.can_attack
                  THEN [d EXCEPT !.attacking = TRUE,
                                 !.jump_time = IF x_collision THEN 0 ELSE @,
                                 !.jumping = IF x_collision THEN TRUE ELSE @,
                                 !.index = 18]
                  ELSE IF d.attacking
                  THEN IF just_finished THEN AttackFrame(d) ELSE d
                  ELSE IF d.velocity[2] > FallingFrameSpeed
                  THEN [d EXCEPT !.index = 25]
                  ELSE [d EXCEPT !.index = 23]
         IN  [a EXCEPT !.can_attack = TRUE]
    ELSE IF keys.dir # 0
    THEN IF just_finished THEN WalkFrame(d) ELSE d
    ELSE IF just_finished THEN IdleFrame(d, roll0) ELSE d

\* arrow_move with the collision response of game.rs 1111-1117 switched on:
\* an intersecting move is taken back and velocity.x set to 0
ArrowMoveBlocked(d, keys, delta, obstacles, roll0) ==
    LET elapsed == d.timer + delta
        just_finished == elapsed >= FrameTimerMs
        d0 == [d EXCEPT !.timer = elapsed % FrameTimerMs]
        d1 == StartJump(d0, keys)
        d2 == ContinueJump(d1, keys, delta)
        d3 == MoveX(d2, keys, delta)
        x_collision == XCollision(d3, obstacles)
        d4 == IF x_collision
              THEN [d3 EXCEPT !.x = d2.x, !.aabb = d2.aabb,
                              !.velocity = <<0, d3.velocity[2]>>]
              ELSE d3
    IN  Animate(d4, keys, x_collision, just_finished, roll0)

\* arrow_move on the dino, given the input, the frame time, the obstacle
\* entities and the idle roll
ArrowMove(d, keys, delta, obstacles, roll0) ==
    LET elapsed == d.timer + delta
        just_finished == elapsed >= FrameTimerMs
        d0 == [d EXCEPT !.timer = elapsed % FrameTimerMs]
        d1 == StartJump(d0, keys)
        d2 == ContinueJump(d1, keys, delta)
        d3 == MoveX(d2, keys, delta)
        x_collision == XCollision(d3, obstacles)
    IN  Animate(d3, keys, x_collision, just_finished, roll0)

(* ------------------------------------------------------------------ *)
(* Camera: camera_tracking_system (camera.rs 80-187)                    *)
(* ------------------------------------------------------------------ *)
\* GameLevelDimensions of the camera spawned by game_camera (camera.rs 33-38)
Level == [left |-> 0 - LevelBound, right |-> LevelBound,
          top |-> LevelBound, bottom |-> 0 - LevelBound]

\* Transform::from_xyz(0., 0., 0.) (camera.rs 74)
CameraDefault == [present |-> TRUE, x |-> 0, y |-> 0]
NoCamera == [CameraDefault EXCEPT !.present = FALSE]

DeadZone == 10
SpringK == 8500
\* b = 2.0 * (m * k).sqrt() with m = 1, in thousandths
SpringB == 2 * ISqrt(SpringK * 1000)

\* d of the spring step for the distance diff (camera.rs 123-127)
SpringStep(diff, delta) ==
    LET v == (diff * 1000) \div delta
        a == 0 - (SpringB * (v \div 100)) \div 10 - (SpringK * (diff \div 10)) \div 100
        v2 == v + (a * delta) \div 1000
    IN  (v2 * delta) \div 1000

\* the distance up to which the step is computed to the hundredth of a unit;
\* beyond it, it is computed to 10 units (d is proportional to the distance,
\* and an f32 keeps about seven digits of it)
SpringFine == Fx(20000)

\* the spring step: player_position + d (camera.rs 123-128, 152-157)
SpringPosition(camera_position, player_position, delta) ==
    LET diff == camera_position - player_position
    IN  player_position + IF Abs(diff) <= SpringFine THEN SpringStep(diff, delta)
                          ELSE 1000 * SpringStep(diff \div 1000, delta)

\* final_position of one axis: the target inside the dead zone, else the
\* spring step (camera.rs 116-128, 145-157)
ComputedPosition(camera_position, player_position, delta) ==
    IF Abs(camera_position - player_position) < DeadZone
    THEN player_position
    ELSE SpringPosition(camera_position, player_position, delta)

\* the follower clamping a refused position to the bound it passed
FollowAxisClamped(camera_position, player_position, min, max, delta) ==
    LET final_position == ComputedPosition(camera_position, player_position, delta)
    IN  IF final_position >= max THEN max
        ELSE IF final_position <= min THEN min ELSE final_position

\* the follower without the dead zone: always the spring step
FollowAxisAlwaysSpring(camera_position, player_position, min, max, delta) ==
    LET final_position == SpringPosition(camera_position, player_position, delta)
    IN  IF final_position < max /\ final_position > min
        THEN final_position ELSE camera_position

\* one axis of the follower: the camera coordinate after the snap or the
\* spring step, kept only strictly inside (min, max)
FollowAxis(camera_position, player_position, min, max, delta) ==
    LET final_position == ComputedPosition(camera_position, player_position, delta)
    IN  IF final_position < max /\ final_position > min
        THEN final_position ELSE camera_position

\* the wraparound moving the player alone
WraparoundKeepsCamera(r) ==
    LET max_x == (Level.right * 9) \div 10
        min_x == (Level.left * 9) \div 10
        max_y == (Level.top * 9) \div 10
        min_y == (Level.bottom * 9) \div 10
    IN  [r EXCEPT !.x = IF @ > max_x THEN min_x ELSE IF @ < min_x THEN max_x ELSE @,
                  !.y = IF @ > max_y THEN min_y ELSE IF @ < min_y THEN max_y ELSE @]

\* the four wraparound tests in source order (camera.rs 166-186);
\* r is [x, y : the player's translation, cx, cy : the camera's]
Wraparound(r) ==
    LET max_x == (Level.right * 9) \div 10
        min_x == (Level.left * 9) \div 10
        max_y == (Level.top * 9) \div 10
        min_y == (Level.bottom * 9) \div 10
        r1 == IF r.x > max_x THEN [r EXCEPT !.x = min_x, !.cx = @ + 2 * min_x] ELSE r
        r2 == IF r1.y > max_y THEN [r1 EXCEPT !.y = min_y, !.cy = @ + 2 * min_y] ELSE r1
        r3 == IF r2.x < min_x THEN [r2 EXCEPT !.x = max_x, !.cx = @ + 2 * max_x] ELSE r2
    IN  IF r3.y < min_y THEN [r3 EXCEPT !.y = max_y, !.cy = @ + 2 * max_y] ELSE r3

\* camera_tracking_system on the player's translation and the camera:
\* the result is [x, y, cx, cy]
CameraTracking(d, cam, delta) ==
    LET cy == FollowAxis(cam.y, d.y + camera_above_center_const,
                         Level.bottom, Level.top, delta)
        cx == FollowAxis(cam.x, d.x, Level.left, Level.right, delta)
    IN  Wraparound([x |-> d.x, y |-> d.y, cx |-> cx, cy |-> cy])

(* ------------------------------------------------------------------ *)
(* Timers (bevy_time::Timer)                                            *)
(* ------------------------------------------------------------------ *)
\* Timer::from_seconds(secs, TimerMode::Once)
TimerFromMs(ms) == [elapsed |-> 0, duration |-> ms]
\* Timer::tick in mode Once: the elapsed time stops at the duration
TimerTick(t, delta) ==
    [t EXCEPT !.elapsed = IF @ + delta >= t.duration THEN t.duration ELSE @ + delta]
TimerFinished(t) == t.elapsed >= t.duration
TimerRemaining(t) == t.duration - t.elapsed
\* Timer::reset: the elapsed time returns to 0, the duration stays
TimerReset(t) == [t EXCEPT !.elapsed = 0]

\* GameTimer::default() (game.rs 826-830)
GameTimerDefault == TimerFromMs(GameTimerSecs * 1000)

(* ------------------------------------------------------------------ *)
(* State                                                                *)
(* ------------------------------------------------------------------ *)
VARIABLES
    appState,           \* State<AppState>: "Game", "GameOver" or "Menu"
    gameState,          \* State<GameState>: "Running" or "NotRunning"
    nextAppState,       \* NextState<AppState>: "None" or the state requested
    nextGameState,      \* NextState<GameState>
    gameStatus,         \* GameStatus: "InProgress", "Lose" or "Win"
    phase,              \* "begin": between frames; "update": Update is running
    pending,            \* the systems of this frame's Update still to run, in order
    delta,              \* Time::delta of this frame, in ms
    keys,               \* ButtonInput<KeyCode> of this frame
    dino,               \* the character entity (present = FALSE: despawned)
    camera,             \* the GameCamera entity's translation
    parallaxCam,        \* the camera translation the Parallax transforms were set from
    platformTiles,      \* GeneratedPlatformObstacles: tile key -> platforms
    treeTiles,          \* GeneratedNonPlatformObstacles: tile key -> trees
    tileOrder,          \* tile keys in the order their entities were spawned
    apples,             \* Apple entities (their aabbs)
    clocks,             \* TimeExtender entities (their aabbs)
    commands,           \* deferred commands of this frame, applied by EndFrame
    gameTimer,          \* GameTimer
    appleBasket,        \* AppleBasket
    rng,                \* state of the random source
    events,             \* SceneChange events readable in this frame
    pendingSceneChange, \* PendingSceneChange: "None" or an AppState
    transitions,        \* Transition entities: [index, timer]
    runFrames,          \* frames in which the per-tick systems have run
    session,            \* number of times setup has run
    env,                \* the environment of this behaviour (inputs, frame times, order)
    obs,                \* what the last steps did, for stating properties
    gen                 \* one tile under construction, its draws chosen freely

vars == <<appState, gameState, nextAppState, nextGameState, gameStatus, phase, pending,
          delta, keys, dino, camera, parallaxCam, platformTiles, treeTiles, tileOrder,
          apples, clocks, commands, gameTimer, appleBasket, rng, events,
          pendingSceneChange, transitions, runFrames, session, env, obs, gen>>

\* the per-tick systems of game.rs 46-62, in the order of the tuple
\* (update_scoreboard only copies AppleBasket into the HUD text and is left out)
TickSystems == <<"update_timeboard", "apple_collect", "clock_collect",
                 "update_healthboard", "update_heightboard", "spawn_platforms",
                 "dino_gravity", "arrow_move", "camera_tracking_system",
                 "parallax_system">>
\* the other Update systems of the plugin that touch the session (game.rs 64-83)
OtherSystems == <<"press_space_to_start", "game_over", "scene_transition">>

NoCommands == [tiles |-> {}, apples |-> {}, clocks |-> {},
               applesGone |-> {}, clocksGone |-> {},
               events |-> <<>>, transitions |-> 0]

NoKeys == [jump |-> FALSE, space |-> FALSE, dir |-> 0]

\* what obs records about the frame in progress
NoObs == [last |-> "none",          \* the system that ran last
          ran |-> FALSE,             \* the per-tick systems run in this frame
          sessionStart |-> FALSE,    \* setup ran at the start of this frame
          waiting |-> FALSE,         \* setup has run, the start input was not yet given
          statusSet |-> FALSE,       \* gameStatus was written in this session
          signals |-> 0,             \* SceneChange(GameOver) events sent in this session
          wrappedUp |-> FALSE,       \* the wraparound has moved the dino from the lower
                                     \* to the upper bound in this session
          snapped |-> FALSE,         \* dino_gravity snapped the dino in this frame
          snaps |-> 0,               \* snaps taken by this frame's dino_gravity
          preSnapVy |-> 0,           \* velocity.y after gravity in this frame's dino_gravity
          healthAtStart |-> 0,       \* health when this frame began
          healthLose |-> FALSE,      \* update_healthboard wrote Lose in this frame
          jumped |-> FALSE,          \* a jump has started since the last landing
          jumpStart |-> FALSE,       \* arrow_move started a jump in this frame
          shown21 |-> 0,             \* frame ticks the attack in progress has spent on frame 21
          attacks |-> 0,             \* attacks registered since the last jump start or landing
          attacked |-> FALSE,        \* arrow_move registered an attack in this frame
          cut |-> FALSE,             \* a placement loop was cut by MaxGenIters
          applesDestroyed |-> 0,     \* Apple entities despawned by collection in this session
          refused |-> <<FALSE, FALSE>>] \* the last tracking step refused the computed x, y

\* Query<&Obstacle, With<Platform>>: the start platform, then the generated
\* platforms whose spawn commands have been applied, in spawn order
RECURSIVE Flatten(_, _, _, _)
Flatten(tiles, order, hidden, n) ==
    IF n > Len(order) THEN <<>>
    ELSE IF order[n] \in hidden THEN Flatten(tiles, order, hidden, n + 1)
    ELSE tiles[order[n]] \o Flatten(tiles, order, hidden, n + 1)

PlatformEntities ==
    <<StartPlatform>> \o Flatten(platformTiles, tileOrder, commands.tiles, 1)
\* Query<&Obstacle>: every platform and every tree
ObstacleEntities ==
    PlatformEntities \o Flatten(treeTiles, tileOrder, commands.tiles, 1)

\* system s may run now: it is the next of this frame's schedule
CanRun(s) ==
    /\ phase = "update"
    /\ pending # <<>>
    /\ Head(pending) = s

Ran(s) == /\ pending' = Tail(pending)
          /\ UNCHANGED <<appState, gameState, nextAppState, phase, delta, keys,
                         runFrames, session, env, events, gen>>

worldVars == <<platformTiles, treeTiles, tileOrder, rng>>
pickupVars == <<apples, clocks, appleBasket>>
sceneVars == <<pendingSceneChange, transitions>>

\* the three lines shared by the session-ending checks:
\*   *game_status = status; game_state.set(NotRunning);
\*   commands.send_event(SceneChange(AppState::GameOver))
EndSession(over, status, system) ==
    /\ gameStatus' = IF over THEN status ELSE gameStatus
    /\ nextGameState' = IF over THEN "NotRunning" ELSE nextGameState
    /\ commands' = IF over THEN [commands EXCEPT !.events = Append(@, "GameOver")]
                   ELSE commands
    /\ obs' = [obs EXCEPT !.last = system,
                          !.statusSet = @ \/ over,
                          !.signals = IF over THEN @ + 1 ELSE @,
                          !.healthLose = @ \/ (over /\ system = "update_healthboard")]

\* update_timeboard (game.rs 1399-1418): the timer is ticked, then read
update_timeboard ==
    /\ CanRun("update_timeboard")
    /\ gameTimer' = TimerTick(gameTimer, delta)
    /\ EndSession(TimerFinished(gameTimer'), "Lose", "update_timeboard")
    /\ Ran("update_timeboard")
    /\ UNCHANGED <<dino, camera, parallaxCam, worldVars, pickupVars, sceneVars>>

\* the health test with the bound at half of the full health
HealthGoneAtHalf(d) == d.present /\ d.health <= HealthDefault \div 2

\* `if dino.health <= 0` behind the `let Ok(dino) = ... else return` (game.rs 1360-1362, 1392)
HealthGone(d) == d.present /\ d.health <= 0

\* update_healthboard (game.rs 1353-1397)
update_healthboard ==
    /\ CanRun("update_healthboard")
    /\ EndSession(HealthGone(dino), "Lose", "update_healthboard")
    /\ Ran("update_healthboard")
    /\ UNCHANGED <<dino, camera, parallaxCam, worldVars, pickupVars, sceneVars, gameTimer>>

\* the height test with the remaining height counted from the start platform
HeightReachedFromPlatform(d) == d.present /\ Fx(10000) - d.y <= 0

\* `if target_height.0 - transform.translation.y <= 0.0` behind the
\* `let Ok(transform) = dino.single() else return` (game.rs 1433-1441)
HeightReached(d) == d.present /\ TargetHeightDefault - d.y <= 0

\* update_heightboard (game.rs 1420-1446): the remaining height is
\* target_height.0 - transform.translation.y
update_heightboard ==
    /\ CanRun("update_heightboard")
    /\ EndSession(HeightReached(dino), "Win", "update_heightboard")
    /\ Ran("update_heightboard")
    /\ UNCHANGED <<dino, camera, parallaxCam, worldVars, pickupVars, sceneVars, gameTimer>>

\* the collection without the early return of a missing dino
CollectedWithoutDino(d, pickups) == {a \in pickups : Intersects(d.aabb, a)}

\* the pickups a collection check finds (game.rs 1296-1300, 1323-1327):
\* none without the dino, else those whose box intersects the dino's
Collected(d, pickups) ==
    IF d.present THEN {a \in pickups : Intersects(d.aabb, a)} ELSE {}

\* queued despawns that are never applied
DespawnIgnored(entities, gone) == entities

\* commands.entity(entity).despawn() applied to the entities of a query
\* (game.rs 1309, 1337)
Despawned(entities, gone) == entities \ gone

\* apple_collect (game.rs 1288-1312): every apple entity the dino's box
\* intersects is counted and its despawn queued
apple_collect ==
    /\ CanRun("apple_collect")
    /\ LET hit == Collected(dino, apples)
       IN  /\ appleBasket' = appleBasket + Cardinality(hit)
           /\ commands' = [commands EXCEPT !.applesGone = @ \cup hit]
    /\ obs' = [obs EXCEPT !.last = "apple_collect"]
    /\ Ran("apple_collect")
    /\ UNCHANGED <<dino, camera, parallaxCam, worldVars, apples, clocks, sceneVars,
                   gameTimer, gameStatus, nextGameState>>

\* clock_collect (game.rs 1315-1340): every clock entity the dino's box
\* intersects replaces the timer by Timer::from_seconds(remaining + 60, Once)
clock_collect ==
    /\ CanRun("clock_collect")
    /\ LET hit == Collected(dino, clocks)
       IN  /\ gameTimer' = IF hit = {} THEN gameTimer
                           ELSE TimerFromMs(TimerRemaining(gameTimer)
                                            + Cardinality(hit) * ClockExtraSecs * 1000)
           /\ commands' = [commands EXCEPT !.clocksGone = @ \cup hit]
    /\ obs' = [obs EXCEPT !.last = "clock_collect"]
    /\ Ran("clock_collect")
    /\ UNCHANGED <<dino, camera, parallaxCam, worldVars, pickupVars, sceneVars,
                   gameStatus, nextGameState>>

\* spawn_platforms (game.rs 569-821): the caches grow by the missing tiles of
\* the neighbourhood; the entities of the new tiles are spawned by commands
spawn_platforms ==
    /\ CanRun("spawn_platforms")
    /\ LET w == IF dino.present
                THEN GenerateRegion(Neighbourhood(TileKey(dino.x, dino.y)), 1,
                        [platformTiles |-> platformTiles, treeTiles |-> treeTiles,
                         order |-> tileOrder, fresh |-> {}, apples |-> {},
                         clocks |-> {}, rng |-> rng, cut |-> FALSE])
                ELSE [platformTiles |-> platformTiles, treeTiles |-> treeTiles,
                      order |-> tileOrder, fresh |-> {}, apples |-> {},
                      clocks |-> {}, rng |-> rng, cut |-> FALSE]
       IN  /\ platformTiles' = w.platformTiles
           /\ treeTiles' = w.treeTiles
           /\ tileOrder' = w.order
           /\ rng' = w.rng
           /\ commands' = [commands EXCEPT !.tiles = @ \cup w.fresh,
                                           !.apples = @ \cup w.apples,
                                           !.clocks = @ \cup w.clocks]
           /\ obs' = [obs EXCEPT !.last = "spawn_platforms", !.cut = @ \/ w.cut]
    /\ Ran("spawn_platforms")
    /\ UNCHANGED <<dino, camera, parallaxCam, pickupVars, sceneVars, gameTimer,
                   gameStatus, nextGameState>>

\* dino_gravity (game.rs 940-1034)
dino_gravity ==
    /\ CanRun("dino_gravity")
    /\ dino' = IF dino.present THEN DinoGravity(dino, PlatformEntities, delta) ELSE dino
    /\ obs' = IF dino.present
              THEN LET landed == Landed(dino, PlatformEntities, delta)
                   IN  [obs EXCEPT !.last = "dino_gravity",
                                   !.snapped = @ \/ landed,
                                   !.snaps = Snaps(dino, PlatformEntities, delta),
                                   !.preSnapVy = Integrate(dino, delta).velocity[2],
                                   !.jumped = IF landed THEN FALSE ELSE @,
                                   !.attacks = IF landed THEN 0 ELSE @]
              ELSE [obs EXCEPT !.last = "dino_gravity"]
    /\ Ran("dino_gravity")
    /\ UNCHANGED <<camera, parallaxCam, worldVars, pickupVars, sceneVars, gameTimer,
                   gameStatus, nextGameState, commands>>

\* arrow_move (game.rs 1037-1285); the idle animation's random rolls are the
\* environment's choice
arrow_move ==
    /\ CanRun("arrow_move")
    /\ \E roll0 \in env.rolls :
          dino' = IF dino.present
                  THEN ArrowMove(dino, keys, delta, ObstacleEntities, roll0)
                  ELSE dino
    /\ obs' = IF dino.present
              THEN LET d1 == StartJump(dino, keys)
                       d3 == MoveX(ContinueJump(d1, keys, delta), keys, delta)
                   IN  [obs EXCEPT !.last = "arrow_move",
                                   !.jumped = @ \/ (keys.jump /\ dino.grounded),
                                   !.jumpStart = keys.jump /\ dino.grounded,
                                   !.attacked = AttackStarts(d3, keys),
                                   !.shown21 =
                                      IF AttackStarts(d3, keys) THEN 0
                                      ELSE IF /\ d3.attacking /\ d3.index = HoldFrame
                                              /\ d3.jumping \/ ~d3.grounded
                                              /\ dino.timer + delta >= FrameTimerMs
                                      THEN @ + 1 ELSE @,
                                   !.attacks = (IF keys.jump /\ dino.grounded THEN 0 ELSE @)
                                               + (IF AttackStarts(d3, keys) THEN 1 ELSE 0)]
              ELSE [obs EXCEPT !.last = "arrow_move"]
    /\ Ran("arrow_move")
    /\ UNCHANGED <<camera, parallaxCam, worldVars, pickupVars, sceneVars, gameTimer,
                   gameStatus, nextGameState, commands>>

\* camera_tracking_system (camera.rs 80-187): needs the camera and the player
camera_tracking_system ==
    /\ CanRun("camera_tracking_system")
    /\ LET r == CameraTracking(dino, camera, delta)
           both == dino.present /\ camera.present
       IN  /\ dino' = IF both THEN [dino EXCEPT !.x = r.x, !.y = r.y] ELSE dino
           /\ camera' = IF both THEN [camera EXCEPT !.x = r.cx, !.y = r.cy] ELSE camera
    /\ obs' = [obs EXCEPT
                 !.last = "camera_tracking_system",
                 !.wrappedUp = @ \/ (/\ dino.present /\ camera.present
                                     /\ dino.y < (Level.bottom * 9) \div 10),
                 !.refused =
                    IF dino.present /\ camera.present
                    THEN LET fx == ComputedPosition(camera.x, dino.x, delta)
                             fy == ComputedPosition(camera.y,
                                                    dino.y + camera_above_center_const, delta)
                         IN  <<~(fx < Level.right /\ fx > Level.left),
                               ~(fy < Level.top /\ fy > Level.bottom)>>
                    ELSE @]
    /\ Ran("camera_tracking_system")
    /\ UNCHANGED <<parallaxCam, worldVars, pickupVars, sceneVars, gameTimer,
                   gameStatus, nextGameState, commands>>

\* parallax_system (camera.rs 199-214): every background transform is set to
\* camera * 0.6 + offset * tile, a function of the camera translation alone
parallax_system ==
    /\ CanRun("parallax_system")
    /\ parallaxCam' = IF camera.present THEN <<camera.x, camera.y>> ELSE parallaxCam
    /\ obs' = [obs EXCEPT !.last = "parallax_system"]
    /\ Ran("parallax_system")
    /\ UNCHANGED <<dino, camera, worldVars, pickupVars, sceneVars, gameTimer,
                   gameStatus, nextGameState, commands>>

\* press_space_to_start (game.rs 101-110)
press_space_to_start ==
    /\ CanRun("press_space_to_start")
    /\ nextGameState' = "Running"
    /\ obs' = [obs EXCEPT !.last = "press_space_to_start", !.waiting = FALSE]
    /\ Ran("press_space_to_start")
    /\ UNCHANGED <<dino, camera, parallaxCam, worldVars, pickupVars, sceneVars,
                   gameTimer, gameStatus, commands>>

\* game_over (game.rs 1448-1477): every SceneChange event read sets the
\* pending scene and queues the spawn of one Transition
game_over ==
    /\ CanRun("game_over")
    /\ pendingSceneChange' = IF events = <<>> THEN pendingSceneChange
                             ELSE events[Len(events)]
    /\ commands' = [commands EXCEPT !.transitions = @ + Len(events)]
    /\ obs' = [obs EXCEPT !.last = "game_over"]
    /\ Ran("game_over")
    /\ UNCHANGED <<dino, camera, parallaxCam, worldVars, pickupVars, transitions,
                   gameTimer, gameStatus, nextGameState>>

\* one Transition entity in scene_transition: its repeating 0.1 s timer is
\* ticked; when it finishes, the frame index advances (game.rs 1545-1558)
TransitionStep(t, dt) ==
    LET elapsed == t.timer + dt
    IN  IF elapsed < TransitionTimerMs THEN [t EXCEPT !.timer = elapsed]
        ELSE [timer |-> elapsed % TransitionTimerMs,
              index |-> IF t.index = TransitionPauseFrame - 1 THEN t.index + 1
                        ELSE IF t.index < TransitionLastFrame THEN t.index + 1
                        ELSE t.index,
              gone |-> ~(t.index = TransitionPauseFrame - 1)
                       /\ ~(t.index < TransitionLastFrame)]
\* the Transition sets NextState<AppState> in this call
TransitionSwitches(t, dt) ==
    t.timer + dt >= TransitionTimerMs /\ t.index = TransitionPauseFrame - 1

\* scene_transition (game.rs 1521-1560); an entity whose despawn it queues
\* is not seen by any other system, so it is dropped here
scene_transition ==
    /\ CanRun("scene_transition")
    /\ LET idle == pendingSceneChange = "None"
           stepped == [n \in DOMAIN transitions |-> TransitionStep(transitions[n], delta)]
       IN  /\ transitions' = IF idle THEN transitions
                             ELSE SelectSeq(stepped, LAMBDA t : ~t.gone)
           /\ nextAppState' =
                 IF ~idle /\ \E n \in DOMAIN transitions :
                                 TransitionSwitches(transitions[n], delta)
                 THEN pendingSceneChange ELSE nextAppState
    /\ pending' = Tail(pending)
    /\ obs' = [obs EXCEPT !.last = "scene_transition"]
    /\ UNCHANGED <<appState, gameState, phase, delta, keys, runFrames, session, env,
                   events, dino, camera, parallaxCam, worldVars, pickupVars,
                   pendingSceneChange, gameTimer, gameStatus, nextGameState, commands,
                   gen>>

\* a Transition as spawned by game_over: Transition::new(13, 6), atlas index 0
NewTransition == [timer |-> 0, index |-> 0, gone |-> FALSE]

RECURSIVE Spawned(_)
Spawned(n) == IF n = 0 THEN <<>> ELSE Append(Spawned(n - 1), NewTransition)

\* the systems of Update whose run conditions hold in this frame
Runs(s, app, game, k) ==
    IF s \in SeqToSet(TickSystems) THEN app = "Game" /\ game = "Running"
    ELSE IF s = "press_space_to_start"
    THEN app = "Game" /\ game = "NotRunning" /\ k.jump
    ELSE IF s = "game_over" THEN events # <<>>
    ELSE transitions # <<>>

\* the schedule of the frame: the systems that run, in the order the
\* executor picked
Scheduled(order, app, game, k) ==
    SelectSeq(order, LAMBDA sys : Runs(sys, app, game, k))

\* (scene_transition runs in every frame; without a Transition entity it
\* does nothing and is not scheduled here)
\* The start of a frame: the input and the frame time are read, the
\* StateTransition schedule applies the queued NextStates, entities scoped to
\* a state that is left are despawned, OnEnter(AppState::Game) runs setup
\* (game.rs 278-566), and the run conditions of Update are evaluated.
BeginFrame ==
    /\ phase = "begin"
    /\ \E k \in env.inputs \cup env.idle, dt \in env.dts, order \in env.orders :
          LET app == IF nextAppState # "None" THEN nextAppState ELSE appState
              game == IF nextGameState # "None" THEN nextGameState ELSE gameState
              entering == app = "Game" /\ appState # "Game"
              leaving == appState = "Game" /\ app # "Game"
              running == app = "Game" /\ game = "Running"
          IN  /\ k \in IF running THEN env.inputs ELSE env.idle
              /\ (k.space /\ ~k.jump) => keys.space
              /\ running => runFrames < env.frames
              /\ keys' = k
              /\ delta' = dt
              /\ appState' = app
              /\ gameState' = game
              /\ nextAppState' = "None"
              /\ nextGameState' = IF entering THEN "NotRunning" ELSE "None"
              /\ dino' = IF entering THEN DinoDefault
                         ELSE IF leaving THEN NoDino ELSE dino
              /\ camera' = IF leaving THEN NoCamera ELSE camera
              /\ platformTiles' = IF entering THEN <<>> ELSE platformTiles
              /\ treeTiles' = IF entering THEN <<>> ELSE treeTiles
              /\ tileOrder' = IF entering \/ leaving THEN <<>> ELSE tileOrder
              /\ apples' = IF entering \/ leaving THEN {} ELSE apples
              /\ clocks' = IF entering \/ leaving THEN {} ELSE clocks
              /\ gameTimer' = IF entering THEN TimerReset(gameTimer) ELSE gameTimer
              /\ appleBasket' = IF entering THEN 0 ELSE appleBasket
              /\ session' = IF entering THEN session + 1 ELSE session
              /\ runFrames' = IF running THEN runFrames + 1 ELSE runFrames
              /\ pending' = Scheduled(order, app, game, k)
              /\ obs' = [obs EXCEPT !.last = "none",
                                    !.ran = running,
                                    !.sessionStart = entering,
                                    !.waiting = IF entering THEN TRUE
                                                ELSE IF leaving THEN FALSE ELSE @,
                                    !.statusSet = IF entering THEN FALSE ELSE @,
                                    !.signals = IF entering THEN 0 ELSE @,
                                    !.wrappedUp = IF entering THEN FALSE ELSE @,
                                    !.snapped = FALSE,
                                    !.snaps = 0,
                                    !.preSnapVy = 0,
                                    !.healthAtStart = dino'.health,
                                    !.healthLose = FALSE,
                                    !.jumped = IF entering THEN FALSE ELSE @,
                                    !.attacked = FALSE,
                                    !.jumpStart = FALSE,
                                    !.attacks = IF entering THEN 0 ELSE @,
                                    !.applesDestroyed = IF entering THEN 0 ELSE @]
    /\ phase' = "update"
    /\ UNCHANGED <<gameStatus, parallaxCam, rng, commands, events, sceneVars, env, gen>>

\* The end of Update: the command queues of the systems are applied
\* (spawns, despawns, events), and the events of the frame before are dropped.
EndFrame ==
    /\ phase = "update"
    /\ pending = <<>>
    /\ phase' = "begin"
    /\ apples' = Despawned(apples \cup commands.apples, commands.applesGone)
    /\ clocks' = Despawned(clocks \cup commands.clocks, commands.clocksGone)
    /\ obs' = [obs EXCEPT !.applesDestroyed =
                            @ + Cardinality(apples \ Despawned(apples, commands.applesGone))]
    /\ events' = commands.events
    /\ transitions' = transitions \o Spawned(commands.transitions)
    /\ commands' = NoCommands
    /\ UNCHANGED <<appState, gameState, nextAppState, nextGameState, gameStatus, pending,
                   delta, keys, dino, camera, parallaxCam, worldVars, gameTimer,
                   appleBasket, pendingSceneChange, runFrames, session, env, gen>>

\* go_to_menu (game.rs 1791-1793), the click observer of the game-over
\* screen's button: the event is sent when the observer's commands are
\* applied, before Update
go_to_menu ==
    /\ phase = "begin"
    /\ env.clicks
    /\ appState = "GameOver" /\ nextAppState = "None"
    /\ events = <<>> /\ transitions = <<>>
    /\ events' = <<"Menu">>
    /\ UNCHANGED <<appState, gameState, nextAppState, nextGameState, gameStatus, phase,
                   pending, delta, keys, dino, camera, parallaxCam, worldVars, pickupVars,
                   commands, gameTimer, sceneVars, runFrames, session, env, obs, gen>>

\* The menu's way back into the game. The menu screen is not part of the
\* sources; a scene switch is requested by a SceneChange event, as everywhere.
start_from_menu ==
    /\ phase = "begin"
    /\ env.clicks
    /\ appState = "Menu" /\ nextAppState = "None"
    /\ events = <<>> /\ transitions = <<>>
    /\ session < MaxSessions
    /\ events' = <<"Game">>
    /\ UNCHANGED <<appState, gameState, nextAppState, nextGameState, gameStatus, phase,
                   pending, delta, keys, dino, camera, parallaxCam, worldVars, pickupVars,
                   commands, gameTimer, sceneVars, runFrames, session, env, obs, gen>>

(* ------------------------------------------------------------------ *)
(* Environments and initial states                                      *)
(* ------------------------------------------------------------------ *)
Tap == [jump |-> TRUE, space |-> FALSE, dir |-> 0]      \* pressed and released in the frame
Press == [jump |-> TRUE, space |-> TRUE, dir |-> 0]     \* pressed in the frame, still down
Hold == [jump |-> FALSE, space |-> TRUE, dir |-> 0]     \* down since an earlier frame
Right == [jump |-> FALSE, space |-> FALSE, dir |-> 1]
Left == [jump |-> FALSE, space |-> FALSE, dir |-> -1]

\* an environment: the inputs it may produce in a frame of a running
\* session and in any other frame, the frame times, the outcomes of the idle
\* rolls, the orders in which the executor may run the systems of a frame
\* (one is chosen anew in every frame), the number of frames with per-tick
\* systems, and whether the user clicks through the menus
Env(inputs, idle, dts, orders, frames, clicks) ==
    [inputs |-> inputs, idle |-> idle, dts |-> dts, rolls |-> BOOLEAN,
     orders |-> orders, frames |-> frames, clicks |-> clicks]

\* the order of the add_systems calls and of the tuple (game.rs 46-83)
SourceOrder == TickSystems \o OtherSystems
RECURSIVE Reverse(_)
Reverse(q) == IF q = <<>> THEN <<>> ELSE Append(Reverse(Tail(q)), Head(q))

\* the application when the assets are loaded: the loading state has queued
\* AFTER_LOADING_STATE (app.rs 10), Startup has spawned the camera
\* (camera.rs 21-79), every resource has its default (game.rs 32-41)
Loaded(seed, e) ==
    [appState |-> "Loading", gameState |-> "NotRunning",
     nextAppState |-> "Game", nextGameState |-> "None",
     gameStatus |-> "InProgress", phase |-> "begin", pending |-> <<>>,
     delta |-> 0, keys |-> NoKeys, dino |-> NoDino, camera |-> CameraDefault,
     parallaxCam |-> <<0, 0>>, platformTiles |-> <<>>, treeTiles |-> <<>>,
     tileOrder |-> <<>>, apples |-> {}, clocks |-> {}, commands |-> NoCommands,
     gameTimer |-> GameTimerDefault, appleBasket |-> 0, rng |-> seed,
     events |-> <<>>, pendingSceneChange |-> "None", transitions |-> <<>>,
     runFrames |-> 0, session |-> 0, env |-> e, obs |-> NoObs]

Seeds == 1..MaxSeed

\* the dino d moved to (x, y), its box with it
At(d, x, y) == [d EXCEPT !.x = x, !.y = y, !.aabb = Aabb2d(<<x, y>>, DinoHalf)]

\* the caches and pickups after spawn_platforms has run for a dino at (x, y)
World(seed, x, y) ==
    GenerateRegion(Neighbourhood(TileKey(x, y)), 1,
                   [platformTiles |-> <<>>, treeTiles |-> <<>>, order |-> <<>>,
                    fresh |-> {}, apples |-> {}, clocks |-> {}, rng |-> seed,
                    cut |-> FALSE])

\* a running session between two frames: the dino is d, the timer has
\* `remaining` ms left, the camera has settled on the dino, the tiles around
\* the dino are generated and their entities spawned
Running(seed, d, remaining, held, e) ==
    LET w == World(seed, d.x, d.y)
    IN  [appState |-> "Game", gameState |-> "Running",
         nextAppState |-> "None", nextGameState |-> "None",
         gameStatus |-> "InProgress", phase |-> "begin", pending |-> <<>>,
         delta |-> 0, keys |-> [NoKeys EXCEPT !.space = held], dino |-> d,
         camera |-> [present |-> TRUE, x |-> d.x, y |-> d.y + camera_above_center_const],
         parallaxCam |-> <<d.x, d.y + camera_above_center_const>>,
         platformTiles |-> w.platformTiles, treeTiles |-> w.treeTiles,
         tileOrder |-> w.order, apples |-> w.apples, clocks |-> w.clocks,
         commands |-> NoCommands,
         gameTimer |-> [elapsed |-> GameTimerSecs * 1000 - remaining,
                        duration |-> GameTimerSecs * 1000],
         appleBasket |-> 0, rng |-> w.rng,
         events |-> <<>>, pendingSceneChange |-> "None", transitions |-> <<>>,
         runFrames |-> 0, session |-> 1, env |-> e,
         obs |-> [NoObs EXCEPT !.healthAtStart = d.health]]

TwoOrders == {SourceOrder, Reverse(SourceOrder)}

\* from the start of the application: the first session from its first frame
FromLoaded ==
    {Loaded(seed, Env({NoKeys, Tap, Left}, {NoKeys, Tap}, {50}, TwoOrders, MaxRunFrames, FALSE)) :
        seed \in Seeds}

\* the top of the start platform, and the dino standing on it
StartTop == StartPlatform.max[2]
Standing == [At(DinoDefault, 0, StartTop + DinoHalf[2]) EXCEPT
                !.grounded = TRUE, !.can_attack = TRUE, !.index = 12]

\* the dino falling onto the start platform: after the next frame of 50 ms
\* its velocity.y is v and its box ends `above` over the platform's top
Falling(v, above, health) ==
    [At(DinoDefault, 0, StartTop + DinoHalf[2] + above - v \div 20) EXCEPT
        !.velocity = <<0, v - (gravity * 50) \div 1000>>,
        !.can_attack = TRUE, !.health = health, !.index = 23]

FallSpeeds == {Fx(-1000), Fx(-1500), Fx(-1501), Fx(-1600), Fx(-1999), Fx(-2000), Fx(-2500)}

OntoPlatform ==
    {Running(1, Falling(v, above, health), 100000, FALSE,
             Env({NoKeys, Press}, {NoKeys}, {50}, TwoOrders, MaxRunFrames - 1, FALSE)) :
        v \in FallSpeeds, above \in {Fx(5), Fx(-1)}, health \in {100, 40}}

\* the dino in the thrust phase of a jump just below the target height,
\* with the timer running out in the first tick, in the second, or not
NearSummit ==
    {Running(1, [At(DinoDefault, 0, TargetHeightDefault - Fx(20)) EXCEPT
                    !.velocity = <<0, JumpAcceleration(JumpHeightDefault)>>,
                    !.jumping = TRUE, !.jump_time = 100, !.index = 25],
             remaining, TRUE,
             Env({NoKeys, Hold}, {NoKeys}, {100}, TwoOrders, MaxRunFrames - 1, TRUE)) :
        remaining \in {100, 200, 100000}}

\* the timer running out in the first tick, Space pressed at will while the
\* end-of-session transition plays in the Game scene
SpaceAtTheEnd ==
    {Running(1, Standing, 50, FALSE,
             Env({NoKeys}, {NoKeys, Tap}, {50}, {SourceOrder}, MaxRunFrames - 1, FALSE))}

\* one long jump from the start platform with an attack input in every frame
LongJump ==
    {Running(seed, Standing, 100000, FALSE,
             Env({k}, {NoKeys}, {70}, {SourceOrder}, MaxAirFrames, FALSE)) :
        seed \in Seeds, k \in {Tap, Press}}

\* the dino running right off the end of a platform, one unit before the
\* horizontal wraparound bound
AtTheEdge ==
    {Running(1, [At(DinoDefault, (LevelBound * 9) \div 10 - Fx(1), 0) EXCEPT
                    !.velocity = <<RUNNING_SPEED, 0>>, !.grounded = TRUE,
                    !.can_attack = TRUE, !.index = 3],
             100000, FALSE,
             Env({Right}, {NoKeys}, {50}, TwoOrders, MaxRunFrames - 1, FALSE))}

\* the dino coming to rest two hundredths of a unit before the horizontal
\* wraparound bound, the camera settled on it
CreepingOverTheEdge ==
    {Running(1, [At(DinoDefault, (LevelBound * 9) \div 10 - 2, 0) EXCEPT
                    !.velocity = <<Fx(1), 0>>, !.grounded = TRUE,
                    !.can_attack = TRUE, !.index = 12],
             100000, FALSE,
             Env({NoKeys}, {NoKeys}, {50}, TwoOrders, MaxRunFrames - 1, FALSE))}

\* the dino in free fall one unit above the lower wraparound bound
FallingPastTheBound ==
    {Running(1, [At(DinoDefault, 0, (Level.bottom * 9) \div 10 + Fx(1)) EXCEPT
                    !.velocity = <<0, Fx(-1000)>>, !.index = 23],
             100000, FALSE,
             Env({NoKeys}, {NoKeys}, {50}, TwoOrders, MaxRunFrames - 1, FALSE))}

\* the dino landing on the start platform in the held tick of an attack
\* (frame 21, the hold counter at 1), a jump input in every frame
LandingMidAttack ==
    {Running(1, [At(DinoDefault, 0, StartTop + DinoHalf[2] + Fx(30)) EXCEPT
                    !.velocity = <<0, Fx(-300)>>, !.attacking = TRUE,
                    !.can_attack = TRUE, !.index = HoldFrame, !.hold = HoldTicks],
             100000, FALSE,
             Env({Press}, {NoKeys}, {70}, {SourceOrder}, MaxAirFrames, FALSE))}

\* the same landing without any input: the attack is still in progress
\* when the dino stands
LandingMidAttackIdle ==
    {Running(1, [At(DinoDefault, 0, StartTop + DinoHalf[2] + Fx(30)) EXCEPT
                    !.velocity = <<0, Fx(-300)>>, !.attacking = TRUE,
                    !.can_attack = TRUE, !.index = HoldFrame, !.hold = HoldTicks],
             100000, FALSE,
             Env({NoKeys}, {NoKeys}, {70}, {SourceOrder}, MaxAirFrames, FALSE))}

\* frames the sprite may show when the dino comes to stand: walk frames,
\* idle frames, the falling and the jumping frame
RestingFrames == {0, 11, 12, 13, 15, 16, 17, 23, 25}

\* the dino standing on the start platform without input, on any of these
\* frames, the idle direction flag either way
Idling ==
    {Running(1, [Standing EXCEPT !.index = index, !.idle_frame_forward = forward],
             100000, FALSE,
             Env({NoKeys}, {NoKeys}, {70}, {SourceOrder}, MaxRunFrames, FALSE)) :
        index \in RestingFrames, forward \in BOOLEAN}

\* seeds for which the tile of the dino carries an apple (1) or a time
\* extender (29)
PickupSeeds == {1, 29}

\* the centre of a box
Centre(a) == <<(a.min[1] + a.max[1]) \div 2, (a.min[2] + a.max[2]) \div 2>>

\* the pickups of the world around the origin that lie in the origin's tile
PickupsAtHome(seed) ==
    LET w == World(seed, 0, 0)
    IN  {p \in w.apples \cup w.clocks :
            TileKey(Centre(p)[1], Centre(p)[2]) = TileKey(0, 0)}

\* the dino in the air, its centre on the centre of a pickup
AtAPickup ==
    {Running(sp[1], At(DinoDefault, Centre(sp[2])[1], Centre(sp[2])[2]), 100000, FALSE,
             Env({NoKeys}, {NoKeys}, {50}, TwoOrders, MaxRunFrames - 1, FALSE)) :
        sp \in UNION {{<<seed, p>> : p \in PickupsAtHome(seed)} : seed \in PickupSeeds}}

\* the timer running out in the tick in which the dino takes a time
\* extender, the user clicking on through the menus to the next session
ClockAtTheEnd ==
    {Running(29, At(DinoDefault, Centre(p)[1], Centre(p)[2]), 50, FALSE,
             Env({NoKeys}, {NoKeys}, {50}, {SourceOrder}, MaxRunFrames - 1, TRUE)) :
        p \in PickupsAtHome(29)}

\* no tile under construction outside spawn_platforms
NoGen == [tile |-> EmptyTile(0), i |-> 0, j |-> 0, iters |-> 0]

\* the variables have the values of the record sc
Start(sc) ==
    /\ appState = sc.appState /\ gameState = sc.gameState
    /\ nextAppState = sc.nextAppState /\ nextGameState = sc.nextGameState
    /\ gameStatus = sc.gameStatus /\ phase = sc.phase /\ pending = sc.pending
    /\ delta = sc.delta /\ keys = sc.keys /\ dino = sc.dino /\ camera = sc.camera
    /\ parallaxCam = sc.parallaxCam /\ platformTiles = sc.platformTiles
    /\ treeTiles = sc.treeTiles /\ tileOrder = sc.tileOrder
    /\ apples = sc.apples /\ clocks = sc.clocks /\ commands = sc.commands
    /\ gameTimer = sc.gameTimer /\ appleBasket = sc.appleBasket /\ rng = sc.rng
    /\ events = sc.events /\ pendingSceneChange = sc.pendingSceneChange
    /\ transitions = sc.transitions /\ runFrames = sc.runFrames
    /\ session = sc.session /\ env = sc.env /\ obs = sc.obs

\* the behaviours start in one of the states above
Init ==
    /\ gen = NoGen
    /\ \/ \E sc \in FromLoaded : Start(sc)
       \/ \E sc \in OntoPlatform : Start(sc)
       \/ \E sc \in NearSummit : Start(sc)
       \/ \E sc \in LongJump : Start(sc)
       \/ \E sc \in AtTheEdge : Start(sc)
       \/ \E sc \in AtAPickup : Start(sc)
       \/ \E sc \in CreepingOverTheEdge : Start(sc)
       \/ \E sc \in LandingMidAttack : Start(sc)
       \/ \E sc \in Idling : Start(sc)
       \/ \E sc \in SpaceAtTheEnd : Start(sc)
       \/ \E sc \in FallingPastTheBound : Start(sc)
       \/ \E sc \in ClockAtTheEnd : Start(sc)
       \/ \E sc \in LandingMidAttackIdle : Start(sc)

Next ==
    \/ BeginFrame
    \/ update_timeboard
    \/ apple_collect
    \/ clock_collect
    \/ update_healthboard
    \/ update_heightboard
    \/ spawn_platforms
    \/ dino_gravity
    \/ arrow_move
    \/ camera_tracking_system
    \/ parallax_system
    \/ press_space_to_start
    \/ game_over
    \/ scene_transition
    \/ EndFrame
    \/ go_to_menu
    \/ start_from_menu

Spec == Init /\ [][Next]_vars

(* ------------------------------------------------------------------ *)
(* The placement loop of one tile under every sequence of draws         *)
(* ------------------------------------------------------------------ *)
\* the states the random source may be in when an iteration begins
DrawSeeds == 1..MaxDrawSeed

\* spawn_platforms has reached `loop {` for the tile (i, j) (game.rs 609-614)
GenInit ==
    /\ Start(Loaded(1, Env({NoKeys}, {NoKeys}, {50}, {SourceOrder}, 0, FALSE)))
    /\ \E i \in {0, 1}, j \in {-1, 0} :
          gen = [tile |-> EmptyTile(0), i |-> i, j |-> j, iters |-> 0]

\* one pass through the body of the loop, the random source in any of the
\* states DrawSeeds when the pass begins (game.rs 614-812)
PlaceStep ==
    /\ ~gen.tile.done
    /\ gen.iters < MaxTileIters
    /\ \E s \in DrawSeeds :
          gen' = [gen EXCEPT !.tile = PlaceIteration(gen.i, gen.j, [gen.tile EXCEPT !.rng = s]),
                             !.iters = @ + 1]
    /\ UNCHANGED <<appState, gameState, nextAppState, nextGameState, gameStatus, phase,
                   pending, delta, keys, dino, camera, parallaxCam, worldVars, pickupVars,
                   commands, gameTimer, events, sceneVars, runFrames, session, env, obs>>

GenNext == PlaceStep

GenSpec == GenInit /\ [][GenNext]_vars

(* ------------------------------------------------------------------ *)
(* The camera follower on positions up to the level bounds              *)
(* ------------------------------------------------------------------ *)
\* coordinates of the player: the origin, just past the wraparound bound,
\* just inside the level bound on either side, just past the level bound
EdgePositions ==
    {0, (LevelBound * 9) \div 10 + Fx(5), LevelBound - Fx(10),
     Fx(10) - LevelBound, LevelBound + Fx(5)}

\* distances of the camera from its target: none, inside the dead zone,
\* behind and ahead of it
CameraOffsets == {0, 5, Fx(-20), Fx(30)}

\* the tick systems have run up to camera_tracking_system in a tick of
\* 50 ms, the player and the camera anywhere up to the level bounds
CamInit ==
    /\ gen = NoGen
    /\ \E px \in EdgePositions, py \in EdgePositions,
          ox \in CameraOffsets, oy \in CameraOffsets :
          Start([Loaded(1, Env({NoKeys}, {NoKeys}, {50}, {SourceOrder}, 1, FALSE)) EXCEPT
                    !.appState = "Game", !.gameState = "Running",
                    !.nextAppState = "None", !.phase = "update",
                    !.pending = <<"camera_tracking_system", "parallax_system">>,
                    !.delta = 50, !.session = 1, !.runFrames = 1,
                    !.dino = At(DinoDefault, px, py),
                    !.camera = [present |-> TRUE, x |-> px + ox,
                                y |-> py + camera_above_center_const + oy],
                    !.parallaxCam = <<px + ox, py + camera_above_center_const + oy>>])

CamNext ==
    \/ camera_tracking_system
    \/ parallax_system

CamSpec == CamInit /\ [][CamNext]_vars

(* ------------------------------------------------------------------ *)
(* Ticks in which a query for the character or the camera finds nothing *)
(* ------------------------------------------------------------------ *)
\* sessions in which every check on the dino would act: on a pickup, or past
\* the target height without health
WhereTheDinoWouldAct ==
    AtAPickup \cup
    {Running(1, [At(DinoDefault, 0, TargetHeightDefault + Fx(10)) EXCEPT !.health = 0],
             100000, FALSE,
             Env({NoKeys}, {NoKeys}, {50}, TwoOrders, MaxRunFrames - 1, FALSE))}

\* a running session in which single() fails for the dino, for the camera,
\* or for both; the camera, if there, is behind its target
AbsentInit ==
    /\ gen = NoGen
    /\ \E r \in WhereTheDinoWouldAct, dp \in BOOLEAN, cp \in BOOLEAN :
          /\ ~(dp /\ cp)
          /\ Start([r EXCEPT !.dino = [r.dino EXCEPT !.present = dp],
                             !.camera = [present |-> cp, x |-> r.camera.x - Fx(30),
                                         y |-> r.camera.y - Fx(30)]])

\* the frames of a running session: the per-tick systems alone
AbsentNext ==
    \/ BeginFrame
    \/ update_timeboard
    \/ apple_collect
    \/ clock_collect
    \/ update_healthboard
    \/ update_heightboard
    \/ spawn_platforms
    \/ dino_gravity
    \/ arrow_move
    \/ camera_tracking_system
    \/ parallax_system
    \/ EndFrame

AbsentSpec == AbsentInit /\ [][AbsentNext]_vars

(* ------------------------------------------------------------------ *)
(* The landing resolution on platforms placed by extension              *)
(* ------------------------------------------------------------------ *)
\* a generated platform with its top at `top` (half extents 50 x 10,
\* game.rs 638-642, 754-758)
PlatformAt(x, top) == Aabb2d(<<x, top - PlatformHalf[2]>>, PlatformHalf)

\* tops of generated platforms relative to the top of the start platform:
\* an extension is placed at existing.aabb.min + (dx, dy) with dx in
\* [-150, 150) and dy in [-400, 400) (game.rs 750-753), so platforms that
\* overlap horizontally with their tops less than 15 apart are generated
LandOffsets == {0, Fx(-5), Fx(-14), Fx(-15), Fx(10)}

\* the platforms of the dino's tile: none, one (under the dino or aside),
\* or two under the dino
LandPlatformLists ==
    {<<>>}
    \cup {<<PlatformAt(x, StartTop + o)>> : x \in {Fx(60), Fx(300)}, o \in LandOffsets}
    \cup {<<PlatformAt(Fx(60), StartTop + o1), PlatformAt(Fx(60), StartTop + o2)>> :
             o1 \in LandOffsets, o2 \in LandOffsets}

\* the dino rising, at rest or falling towards the start platform; standing
\* on it, in its middle, on its end, and one step past its end
LandDinos ==
    {Falling(v, above, 100) :
        v \in {Fx(100), 0, Fx(-300), Fx(-1501), Fx(-2500)},
        above \in {Fx(-1), 0, Fx(14), Fx(15)}}
    \cup {At(Standing, x, Standing.y) : x \in {0, Fx(181), Fx(183)}}

\* the systems of a tick that write the character are about to run, those
\* of the character in either order, in a tick of 50 ms
LandInit ==
    /\ gen = NoGen
    /\ \E d \in LandDinos, ps \in LandPlatformLists, k \in {NoKeys, Right, Press},
          first \in {"dino_gravity", "arrow_move"} :
          Start([Loaded(1, Env({NoKeys}, {NoKeys}, {50}, {SourceOrder}, 1, FALSE)) EXCEPT
                    !.appState = "Game", !.gameState = "Running",
                    !.nextAppState = "None", !.phase = "update",
                    !.pending = IF first = "dino_gravity"
                                THEN <<"dino_gravity", "arrow_move", "camera_tracking_system">>
                                ELSE <<"arrow_move", "dino_gravity", "camera_tracking_system">>,
                    !.delta = 50, !.keys = k, !.session = 1, !.runFrames = 1,
                    !.dino = d,
                    !.camera = [present |-> TRUE, x |-> d.x,
                                y |-> d.y + camera_above_center_const],
                    !.parallaxCam = <<d.x, d.y + camera_above_center_const>>,
                    !.platformTiles = (<<0, 0>> :> ps),
                    !.treeTiles = (<<0, 0>> :> <<>>),
                    !.tileOrder = << <<0, 0>> >>,
                    !.obs = [NoObs EXCEPT !.ran = TRUE, !.healthAtStart = d.health]])

LandNext ==
    \/ dino_gravity
    \/ arrow_move
    \/ camera_tracking_system

LandSpec == LandInit /\ [][LandNext]_vars

(* ------------------------------------------------------------------ *)
(* Properties                                                           *)
(* ------------------------------------------------------------------ *)

\* C1: within one session the status changes its value at most once: once a
\* session-ending check has written it, no later step of the same session
\* gives it another value (the first writer wins).
StatusWrittenOnce ==
    [][(obs.statusSet /\ session' = session) => gameStatus' = gameStatus]_vars

\* C2: whenever a new session starts, that is whenever setup has run on
\* entering the Game state, also after a session that ended in Win or Lose,
\* the status is InProgress.
SessionStartsInProgress ==
    obs.sessionStart => gameStatus = "InProgress"

\* C3 as claimed: from a fresh jump start at most one attack is registered
\* before the next landing, whatever attack-input edges arrive, also after
\* the first attack's animation has finished.
OneAttackPerJump ==
    obs.jumped => obs.attacks <= 1

\* C3: arrow_move registers an attack only on an attack-input edge, in a
\* call that finds the dino airborne (so never on the edge that starts the
\* jump), with no attack in progress and can_attack set.
AttackOnlyWhenNoneInProgress ==
    [][(CanRun("arrow_move") /\ obs'.attacked)
          => (keys.jump /\ ~dino.grounded /\ ~dino.attacking /\ dino.can_attack)]_vars

\* a second attack of the same jump has just been registered
SecondAttackOfJump ==
    obs.jumped /\ obs.attacked /\ obs.last = "arrow_move" /\ obs.attacks = 2

\* C4: after every tick the centre of the dino's box equals its position on
\* both axes: every change of the position (vertical integration, landing
\* snap, horizontal integration, wraparound teleport) moves the box with it.
AabbFollowsPosition ==
    (phase = "begin" /\ dino.present)
        => /\ dino.aabb.min[1] + dino.aabb.max[1] = 2 * dino.x
           /\ dino.aabb.min[2] + dino.aabb.max[2] = 2 * dino.y

\* a step that stays inside one session
SameSession == session' = session /\ ~obs'.sessionStart

\* C5: the obstacle cache is append-only within a session: a tile key, once
\* in a cache, stays in it with the same obstacle list; and the generator,
\* run for a region whose tiles are all cached, changes neither the caches
\* nor the obstacles and pickups (it queues no spawn and draws no number).
CacheAppendOnly ==
    [][SameSession =>
        /\ \A k \in DOMAIN platformTiles :
              k \in DOMAIN platformTiles' /\ platformTiles'[k] = platformTiles[k]
        /\ \A k \in DOMAIN treeTiles :
              k \in DOMAIN treeTiles' /\ treeTiles'[k] = treeTiles[k]
        /\ (/\ CanRun("spawn_platforms")
            /\ dino.present
            /\ NeighbourKeys(TileKey(dino.x, dino.y))
                  \subseteq (DOMAIN platformTiles \cap DOMAIN treeTiles))
           => UNCHANGED <<platformTiles, treeTiles, tileOrder, rng, commands,
                          apples, clocks>>]_vars

\* the generator has just run for a neighbourhood that is all cached, in a
\* session whose caches have grown beyond the first neighbourhood
GeneratorRunOnCachedRegion ==
    /\ obs.last = "spawn_platforms"
    /\ dino.present
    /\ commands.tiles = {}
    /\ Cardinality(DOMAIN platformTiles) > Len(Neighbourhood(<<0, 0>>))

\* C6: when the generator returns for a dino at position p, every tile key
\* of the 5x5 neighbourhood centred on TileKey(p) = (floor(p.x / 600),
\* floor(p.y / 480)) is in the platform cache and in the tree cache.
NeighbourhoodGenerated ==
    [][(CanRun("spawn_platforms") /\ dino.present)
          => \A i \in -2..2, j \in -2..2 :
                LET k == <<(dino.x \div Fx(600)) + i, (dino.y \div Fx(480)) + j>>
                IN  k \in DOMAIN platformTiles' /\ k \in DOMAIN treeTiles']_vars

\* the generator has just returned for a dino that has left the tile of the
\* origin, with tiles of its neighbourhood newly generated
GeneratedAwayFromOrigin ==
    /\ obs.last = "spawn_platforms"
    /\ dino.present
    /\ TileKey(dino.x, dino.y) # <<0, 0>>
    /\ commands.tiles # {}
    /\ platformTiles # <<>>

\* C7: health starts at 100, never increases within a session, and changes
\* only in a tick's landing resolution when a landing snap happens with a
\* pre-snap velocity.y below -1500; no other operation changes it.
HealthOnlyFallsOnHardLanding ==
    /\ [](obs.sessionStart => dino.health = 100)
    /\ [][(dino.present /\ dino'.present /\ dino'.health # dino.health)
             => /\ dino'.health < dino.health
                /\ CanRun("dino_gravity")
                /\ obs'.snapped
                /\ obs'.preSnapVy < Fx(-1500)]_vars

\* a hard landing has just reduced the health
HardLandingHurt ==
    /\ obs.last = "dino_gravity"
    /\ obs.snapped
    /\ obs.preSnapVy < Fx(-1500)
    /\ dino.health < obs.healthAtStart

\* C8: for every landing with pre-snap vertical velocity v the damage taken
\* from the health is 0 if v >= -1500, and otherwise exactly
\* 20 * (floor(|v| / 500) - 2), a positive multiple of 20.
FallDamageFormula ==
    [][(CanRun("dino_gravity") /\ dino.present /\ obs'.snapped)
          => LET v == obs'.preSnapVy
                 damage == dino.health - dino'.health
             IN  IF v >= Fx(-1500) THEN damage = 0
                 ELSE /\ damage = 20 * (((0 - v) \div Fx(500)) - 2)
                      /\ damage > 0
                      /\ damage % 20 = 0]_vars

\* a landing at velocity.y = -2500 has just cost 60 health
LandedAt2500 ==
    /\ obs.last = "dino_gravity"
    /\ obs.snapped
    /\ obs.preSnapVy = Fx(-2500)
    /\ dino.health = obs.healthAtStart - 60

\* the dino's box stands on a platform entity whose horizontal span it overlaps
OnAPlatform(d) ==
    \E n \in DOMAIN PlatformEntities :
       LET p == PlatformEntities[n]
       IN  /\ d.aabb.min[2] = p.max[2]
           /\ d.aabb.max[1] >= p.min[1]
           /\ d.aabb.min[1] <= p.max[1]

\* C9 as claimed: after any tick in which a landing snap occurred, the box's
\* bottom equals the top of a platform whose span the dino overlaps, the
\* box's height is unchanged, velocity.y is 0 and the dino is grounded; after
\* a tick in which no platform produced a landing it is airborne.
GroundedAfterLandingTick ==
    (phase = "begin" /\ obs.ran /\ dino.present)
        => IF obs.snapped
           THEN /\ OnAPlatform(dino)
                /\ dino.aabb.max[2] - dino.aabb.min[2] = 2 * DinoHalf[2]
                /\ dino.velocity[2] = 0
                /\ dino.grounded
           ELSE ~dino.grounded

\* C9: when the landing resolution of a tick (dino_gravity) has snapped the
\* dino, the box's bottom equals the top of a platform whose span the dino
\* overlaps, the box's height is unchanged, velocity.y is 0 and the dino is
\* grounded, until arrow_move runs; and after a tick in which no platform
\* produced a landing the dino is airborne.
GroundedAfterLandingResolution ==
    /\ [][(CanRun("dino_gravity") /\ dino.present /\ obs'.snapped)
             => /\ OnAPlatform(dino')
                /\ dino'.aabb.max[2] - dino'.aabb.min[2]
                      = dino.aabb.max[2] - dino.aabb.min[2]
                /\ dino'.velocity[2] = 0
                /\ dino'.grounded]_vars
    /\ []((phase = "begin" /\ obs.ran /\ dino.present /\ ~obs.snapped)
             => ~dino.grounded)

\* the landing resolution has just snapped a falling dino onto a platform
SnappedOntoPlatform ==
    /\ obs.last = "dino_gravity"
    /\ obs.snapped
    /\ obs.preSnapVy < 0
    /\ dino.grounded

\* C10 as claimed: the status becomes Lose in the same tick as the landing
\* that brings the health to 0 or below.
LoseInTheLandingTick ==
    (/\ phase = "begin" /\ obs.ran /\ dino.present
     /\ obs.snapped /\ obs.healthAtStart > 0 /\ dino.health <= 0)
        => gameStatus = "Lose"

\* C10: update_healthboard writes Lose exactly when it finds the health at 0
\* or below, never while the health is above 0; and a tick that starts with
\* the health at 0 or below (the tick after the landing, when the health
\* check ran before the landing resolution) has Lose written by the check.
LoseWhenHealthCheckFindsNone ==
    /\ [][(CanRun("update_healthboard") /\ dino.present)
             => /\ obs'.healthLose <=> dino.health <= 0
                /\ dino.health <= 0 => gameStatus' = "Lose"]_vars
    /\ [](obs.healthLose => dino.health <= 0)
    /\ []((phase = "begin" /\ obs.ran /\ dino.present /\ obs.healthAtStart <= 0)
             => obs.healthLose)

\* the health check has written Lose in the tick after the landing that
\* brought the health below 0
LoseInTheTickAfterLanding ==
    /\ obs.healthLose
    /\ obs.healthAtStart <= 0
    /\ ~obs.snapped
    /\ gameStatus = "Lose"

\* C11 as claimed: in the first session, with health left and time remaining,
\* the status is Win at the end of the first tick in which the remaining
\* height target_height - position.y is <= 0.
WinInTheTickTheHeightIsReached ==
    (/\ phase = "update" /\ pending = <<>> /\ obs.ran /\ session = 1
     /\ dino.present /\ dino.health > 0 /\ ~TimerFinished(gameTimer)
     /\ TargetHeightDefault - dino.y <= 0)
    => gameStatus = "Win"

\* C11: the status becomes Win only in a run of the height check that finds
\* target_height - position.y <= 0, and every run of the height check that
\* finds it so leaves the status Win; a run that finds the remaining height
\* positive leaves the status as it was.
WinWhenHeightCheckFindsTarget ==
    [][/\ (gameStatus' = "Win" /\ gameStatus # "Win")
           => (CanRun("update_heightboard") /\ dino.present
               /\ TargetHeightDefault - dino.y <= 0)
       /\ (CanRun("update_heightboard") /\ pending' = Tail(pending))
           => IF dino.present /\ TargetHeightDefault - dino.y <= 0
              THEN gameStatus' = "Win"
              ELSE gameStatus' = gameStatus]_vars

\* C11 witness: the height check has just written Win for a dino at or above
\* the target height, with time remaining and health left
WinWrittenAtTheSummit ==
    /\ obs.last = "update_heightboard" /\ gameStatus = "Win"
    /\ dino.present /\ TargetHeightDefault - dino.y <= 0
    /\ dino.health > 0 /\ ~TimerFinished(gameTimer) /\ session = 1

\* C12 as claimed (second half): a running session whose timer has reached
\* zero ends in Lose: between two frames, the timer finished, the status is
\* Lose.
TimeoutEndsInLose ==
    (phase = "begin" /\ TimerFinished(gameTimer)) => gameStatus = "Lose"

\* C13: within a session each pickup is collected at most once. A collection
\* check takes exactly the pickups whose box intersects the dino's box: the
\* basket grows by one per apple taken, the remaining time by 60 s per time
\* extender taken, and nothing else changes either; at the end of the tick
\* the pickups taken are gone and no other pickup is; hence, between the
\* ticks of a session, the basket equals the number of apples destroyed.
PickupCollectedOnce ==
    /\ [][/\ (CanRun("apple_collect") /\ pending' = Tail(pending))
              => LET hit == {a \in apples : dino.present /\ Intersects(a, dino.aabb)}
                 IN  /\ appleBasket' = appleBasket + Cardinality(hit)
                     /\ commands'.applesGone = commands.applesGone \cup hit
          /\ (CanRun("clock_collect") /\ pending' = Tail(pending))
              => LET hit == {c \in clocks : dino.present /\ Intersects(c, dino.aabb)}
                 IN  /\ TimerRemaining(gameTimer')
                           = TimerRemaining(gameTimer) + Cardinality(hit) * 60 * 1000
                     /\ commands'.clocksGone = commands.clocksGone \cup hit
          /\ (appleBasket' # appleBasket /\ session' = session)
              => CanRun("apple_collect")
          /\ (TimerRemaining(gameTimer') > TimerRemaining(gameTimer) /\ session' = session)
              => CanRun("clock_collect")
          /\ (phase = "update" /\ phase' = "begin")
              => /\ apples' \cap commands.applesGone = {}
                 /\ clocks' \cap commands.clocksGone = {}
                 /\ apples \ apples' \subseteq commands.applesGone
                 /\ clocks \ clocks' \subseteq commands.clocksGone]_vars
    /\ [](phase = "begin" /\ appState = "Game" => appleBasket = obs.applesDestroyed)

\* C13 witness: an apple has been collected and destroyed, and the dino's
\* box still covers the place where it was, in a later tick of the session
AppleTakenAndGone ==
    /\ appState = "Game" /\ gameState = "Running" /\ runFrames = 2
    /\ obs.last = "apple_collect" /\ appleBasket = 1 /\ obs.applesDestroyed = 1
    /\ apples # {} /\ commands.applesGone = {}

\* C14 as claimed: the placement loop of a tile ends after a bounded number
\* of iterations whatever the draws: when as many iterations have run as the
\* model follows, the loop has reached a break.
TileDoneWithinBound ==
    gen.iters = MaxTileIters => gen.tile.done

\* the obstacles of the tile under construction
TotalObstacles(t) == Len(t.platforms) + Len(t.trees)

\* C14: whatever the draws, a tile never holds more than 8 obstacles; a pass
\* through the loop removes no obstacle and adds at most one, or two when it
\* begins with none; a pass that begins with 8 obstacles ends the loop, and
\* the loop ends only with 4 obstacles or more. (The number of passes that
\* add nothing is not bounded.)
TileWithinHardCap ==
    /\ [](TotalObstacles(gen.tile) <= HardCap)
    /\ [][/\ TotalObstacles(gen.tile') <= TotalObstacles(gen.tile)
                                              + (IF TotalObstacles(gen.tile) = 0 THEN 2 ELSE 1)
          /\ Len(gen.tile'.platforms) >= Len(gen.tile.platforms)
          /\ Len(gen.tile'.trees) >= Len(gen.tile.trees)
          /\ TotalObstacles(gen.tile) >= HardCap => gen.tile'.done
          /\ gen.tile'.done => TotalObstacles(gen.tile) >= SoftCap]_vars

\* C14 witness: the loop of a tile has ended with the tile at the hard cap
TileDoneAtHardCap ==
    gen.tile.done /\ TotalObstacles(gen.tile) = HardCap

\* a run of camera_tracking_system with the player and the camera present
TrackingStep ==
    /\ CanRun("camera_tracking_system") /\ pending' = Tail(pending)
    /\ dino.present /\ camera.present

\* the coordinate lies strictly inside the level bounds on its axis
InsideX(x) == x > Level.left /\ x < Level.right
InsideY(y) == y > Level.bottom /\ y < Level.top

\* C15 as claimed: on each axis, when |camera - target| < 0.10 and the target
\* lies strictly inside the level bounds, the camera equals the target after
\* the tracking step of the tick.
SnapsToTarget ==
    [][TrackingStep =>
         /\ (Abs(camera.x - dino.x) < DeadZone /\ InsideX(dino.x))
             => camera'.x = dino.x
         /\ (Abs(camera.y - (dino.y + camera_above_center_const)) < DeadZone
              /\ InsideY(dino.y + camera_above_center_const))
             => camera'.y = dino.y + camera_above_center_const]_vars

\* C15: the same, for a player that is not beyond the wraparound bound of the
\* axis (|position| <= 0.9 of the level bound); beyond it the camera is
\* snapped and then moved by twice the bound together with the player.
SnapsToTargetWithoutWraparound ==
    [][TrackingStep =>
         /\ (Abs(camera.x - dino.x) < DeadZone /\ InsideX(dino.x)
              /\ Abs(dino.x) <= (LevelBound * 9) \div 10)
             => camera'.x = dino.x
         /\ (Abs(camera.y - (dino.y + camera_above_center_const)) < DeadZone
              /\ InsideY(dino.y + camera_above_center_const)
              /\ Abs(dino.y) <= (LevelBound * 9) \div 10)
             => camera'.y = dino.y + camera_above_center_const]_vars

\* C15 witness: the tracking step has just moved the camera by less than the
\* dead zone, exactly onto the player
SnappedAcrossTheDeadZone ==
    /\ obs.last = "camera_tracking_system" /\ dino.present /\ camera.present
    /\ camera.x = dino.x
    /\ parallaxCam[1] # camera.x /\ Abs(parallaxCam[1] - camera.x) < DeadZone

\* final_position of the tracking step on each axis
ComputedX == ComputedPosition(camera.x, dino.x, delta)
ComputedY == ComputedPosition(camera.y, dino.y + camera_above_center_const, delta)

\* what the wraparound adds to the camera on each axis (camera.rs 166-186)
WrapShiftX ==
    IF dino.x > (Level.right * 9) \div 10 THEN 2 * ((Level.left * 9) \div 10)
    ELSE IF dino.x < (Level.left * 9) \div 10 THEN 2 * ((Level.right * 9) \div 10)
    ELSE 0
WrapShiftY ==
    IF dino.y > (Level.top * 9) \div 10 THEN 2 * ((Level.bottom * 9) \div 10)
    ELSE IF dino.y < (Level.bottom * 9) \div 10 THEN 2 * ((Level.top * 9) \div 10)
    ELSE 0

\* C16 as claimed: on each axis the tracking step leaves the camera where it
\* was when the computed position is not strictly inside the level bounds,
\* and puts it exactly on the computed position otherwise.
HeldOrComputed ==
    [][TrackingStep =>
         /\ camera'.x = IF InsideX(ComputedX) THEN ComputedX ELSE camera.x
         /\ camera'.y = IF InsideY(ComputedY) THEN ComputedY ELSE camera.y]_vars

\* C16: on each axis the tracking step takes the computed position when it
\* is strictly inside the level bounds and the old camera position when it
\* is not (never the bound itself), and then adds the wraparound shift of
\* that axis, which is zero for a player within 0.9 of the level bound.
HeldOrComputedThenWrapped ==
    [][TrackingStep =>
         /\ camera'.x = (IF InsideX(ComputedX) THEN ComputedX ELSE camera.x) + WrapShiftX
         /\ camera'.y = (IF InsideY(ComputedY) THEN ComputedY ELSE camera.y) + WrapShiftY]_vars

\* C16 witness: the tracking step has refused the computed position on the x
\* axis and taken it on the y axis
RefusedOnOneAxis ==
    /\ obs.last = "camera_tracking_system"
    /\ obs.refused = <<TRUE, FALSE>>
    /\ camera.x = parallaxCam[1] + 2 * ((Level.left * 9) \div 10)
    /\ camera.y # parallaxCam[2]

\* the systems that return at once when single() finds no dino
DinoSystems ==
    {"spawn_platforms", "dino_gravity", "arrow_move", "apple_collect", "clock_collect",
     "update_healthboard", "update_heightboard", "camera_tracking_system"}
\* the systems that return at once when single() finds no camera
CameraSystems == {"camera_tracking_system", "parallax_system"}

\* a run of one of the systems
StepOf(systems) ==
    /\ phase = "update" /\ pending # <<>>
    /\ Head(pending) \in systems
    /\ pending' = Tail(pending)

\* C17: without a dino, generation, physics, the pickup collections, the
\* health check, the height check and the camera tracking change neither the
\* caches, the pickups, the basket, the session status, the queued commands
\* nor the camera; without a camera, tracking and parallax change neither the
\* camera, the dino nor the backgrounds.
AbsentEntityNoOps ==
    [][/\ (~dino.present /\ StepOf(DinoSystems))
          => UNCHANGED <<dino, camera, platformTiles, treeTiles, tileOrder, rng, apples,
                         clocks, appleBasket, commands, gameStatus, nextGameState,
                         gameTimer, parallaxCam>>
       /\ (~camera.present /\ StepOf(CameraSystems))
          => UNCHANGED <<camera, dino, parallaxCam>>]_vars

\* C17 witness: a whole tick has run without a dino where the dino's box
\* lies on a pickup or past the target height, and nothing was collected or
\* decided
TickWithoutDino ==
    /\ phase = "begin" /\ obs.ran /\ ~dino.present /\ camera.present
    /\ \/ \E a \in apples \cup clocks : Intersects(dino.aabb, a)
       \/ TargetHeightDefault - dino.y <= 0
    /\ appleBasket = 0 /\ gameStatus = "InProgress"

\* the place of a system in the order generation, physics/collision, camera
\* tracking, parallax; 0 for the systems the order does not name
Stage(sys) ==
    IF sys = "spawn_platforms" THEN 1
    ELSE IF sys \in {"dino_gravity", "arrow_move"} THEN 2
    ELSE IF sys = "camera_tracking_system" THEN 3
    ELSE IF sys = "parallax_system" THEN 4
    ELSE 0

\* C18: in every tick each per-tick system is scheduled exactly once, and
\* generation runs before physics and collision, these before the camera
\* tracking, and the camera tracking before parallax.
TickInFixedOrder ==
    (phase = "update" /\ obs.ran /\ obs.last = "none")
        => /\ \A sys \in SeqToSet(TickSystems) :
                 Cardinality({n \in 1..Len(pending) : pending[n] = sys}) = 1
           /\ \A m, n \in 1..Len(pending) :
                 (m < n /\ Stage(pending[m]) > 0 /\ Stage(pending[n]) > 0)
                     => Stage(pending[m]) <= Stage(pending[n])

\* the tile of the dino is in the cache and its entities are spawned
DinoTileVisible ==
    /\ TileKey(dino.x, dino.y) \in SeqToSet(tileOrder)
    /\ TileKey(dino.x, dino.y) \notin commands.tiles

\* C19: whenever the landing check (dino_gravity) or the x_collision check
\* (arrow_move) of a tick is about to run, the tile containing the dino is in
\* the cache and its obstacles are spawned, the first tick of a session and
\* the tick in which the dino enters a new tile included.
TileGeneratedBeforeCollision ==
    ((CanRun("dino_gravity") \/ CanRun("arrow_move")) /\ dino.present)
        => DinoTileVisible

\* the dino's position.x and the x-bounds of its box after a step are those
\* before it moved by dx
MovedX(dx) ==
    /\ dino'.x = dino.x + dx
    /\ dino'.aabb.min[1] = dino.aabb.min[1] + dx
    /\ dino'.aabb.max[1] = dino.aabb.max[1] + dx

\* position.x after the wraparound (camera.rs 166-186): past 0.9 of a
\* level bound it is set to 0.9 of the opposite bound
WrappedX ==
    IF dino.x > (Level.right * 9) \div 10 THEN (Level.left * 9) \div 10
    ELSE IF dino.x < (Level.left * 9) \div 10 THEN (Level.right * 9) \div 10
    ELSE dino.x

\* velocity.x * dt of the dino after the step
StepX == (dino'.velocity[1] * delta) \div 1000

CachedObstacles(k) == Len(platformTiles[k]) + Len(treeTiles[k])

\* C21: every tile in the cache holds at least 4 (the soft cap) and at most
\* 8 (the hard cap) obstacles, platforms and trees together.
CachedTilesWithinCaps ==
    \A k \in SeqToSet(tileOrder) :
        CachedObstacles(k) >= SoftCap /\ CachedObstacles(k) <= HardCap

\* C21 witness: spawn_platforms has filled the cache in a running session,
\* one tile stopped at the soft cap and another went on past it
CacheWithSparseAndDenseTiles ==
    /\ appState = "Game" /\ obs.last = "spawn_platforms"
    /\ \E k \in SeqToSet(tileOrder) : CachedObstacles(k) = SoftCap
    /\ \E k \in SeqToSet(tileOrder) : CachedObstacles(k) > SoftCap + 1

HitInStep == obs'.attacked /\ XCollision(dino', ObstacleEntities)

\* C23: arrow_move sets velocity.y to the thrust exactly when the key is
\* held and the thrust phase is on with jump_time < 0.22 s (a jump started
\* in the same call counts); otherwise it leaves velocity.y and ends the
\* phase, and the phase is on afterwards only by a thrust of this call or a
\* connected attack hit, whatever the key does.
ThrustOnlyWithinBudget ==
    [][(CanRun("arrow_move") /\ dino.present)
          => LET started == keys.jump /\ dino.grounded
                 thrust == /\ keys.space
                           /\ \/ started
                              \/ dino.jumping /\ dino.jump_time < max_jump_time
             IN  /\ dino'.velocity[2] = IF thrust THEN JumpAcceleration(dino.jump_height)
                                        ELSE dino.velocity[2]
                 /\ dino'.jumping = (thrust \/ HitInStep)
                 /\ (~thrust /\ ~started /\ ~HitInStep) => dino'.jump_time = dino.jump_time]_vars

\* C23 witness: arrow_move has run with the key held and the budget used
\* up: the dino is in the air, the thrust phase over
ThrustEndedByBudget ==
    /\ obs.last = "arrow_move" /\ dino.present
    /\ keys.space /\ ~dino.jumping /\ ~dino.grounded
    /\ dino.jump_time >= max_jump_time

\* C24: an attack that starts in arrow_move is a connected hit exactly when
\* the moved box intersects an obstacle: then jump_time is 0 and the thrust
\* phase is on after the call; without an intersection jump_time and the
\* thrust phase are what the thrust branch of the call left.
AttackHitRestartsThrust ==
    [][(CanRun("arrow_move") /\ dino.present /\ obs'.attacked)
          => LET thrust == /\ keys.space /\ dino.jumping
                           /\ dino.jump_time < max_jump_time
             IN  /\ dino'.attacking
                 /\ IF XCollision(dino', ObstacleEntities)
                    THEN dino'.jump_time = 0 /\ dino'.jumping
                    ELSE /\ dino'.jump_time = dino.jump_time + (IF thrust THEN delta ELSE 0)
                         /\ dino'.jumping = thrust]_vars

\* C24 witness: an attack has started in mid-air on an obstacle: the jump
\* time is 0 and the thrust phase on
AttackConnected ==
    /\ obs.last = "arrow_move" /\ dino.present /\ obs.attacked
    /\ XCollision(dino, ObstacleEntities)
    /\ dino.attacking /\ dino.jumping /\ dino.jump_time = 0
    /\ ~obs.jumpStart

\* a frame-timer tick of an attack in the air: arrow_move is about to run
\* with the attack in progress on one of its frames, no jump starting, the
\* dino in the air or thrusting when the animation is chosen, and the frame
\* timer finishing
AttackTick ==
    /\ CanRun("arrow_move") /\ dino.present /\ pending' = Tail(pending)
    /\ dino.attacking /\ dino.index \in 18..24
    /\ ~(keys.jump /\ dino.grounded)
    /\ \/ ~dino.grounded
       \/ keys.space /\ dino.jumping /\ dino.jump_time < max_jump_time
    /\ dino.timer + delta >= FrameTimerMs

\* C25: an attack starts on frame 18; on every frame-timer tick in the air
\* it advances by one frame, except that frame 21 is shown for two ticks
\* before 22 follows, and on the tick after 24 the frame becomes 23 and
\* attacking is cleared.
AttackFramesThenEnd ==
    [][/\ (CanRun("arrow_move") /\ dino.present /\ obs'.attacked)
            => (dino'.index = 18 /\ dino'.attacking)
       /\ AttackTick
            => IF dino.index = 24 THEN dino'.index = 23 /\ ~dino'.attacking
               ELSE /\ dino'.attacking
                    /\ dino'.index \in {dino.index, dino.index + 1}
                    /\ dino'.index = dino.index => dino.index = HoldFrame
                    /\ (dino.index = HoldFrame /\ dino'.index = HoldFrame + 1)
                          => obs'.shown21 = HoldTicks + 1]_vars

\* a frame-timer tick of the idle animation: arrow_move is about to run for
\* a dino on the ground, without a jump edge, a thrust or a direction key,
\* and the frame timer finishing
IdleTick ==
    /\ CanRun("arrow_move") /\ dino.present /\ pending' = Tail(pending)
    /\ dino.grounded /\ ~keys.jump
    /\ ~(keys.space /\ dino.jumping /\ dino.jump_time < max_jump_time)
    /\ keys.dir = 0
    /\ dino.timer + delta >= FrameTimerMs

FollowedX == IF InsideX(ComputedX) THEN ComputedX ELSE camera.x
FollowedY == IF InsideY(ComputedY) THEN ComputedY ELSE camera.y

\* 0.9 of the level bounds
WrapBoundX == (Level.right * 9) \div 10
WrapBoundY == (Level.top * 9) \div 10

\* C27 as claimed: a player past 0.9 of a level bound is put on the opposite
\* 0.9 bound and the camera shifted by twice that bound, and the offset of
\* the camera from the player is the same after the wraparound as before.
WraparoundKeepsOffset ==
    [][TrackingStep
          => /\ (dino.x > WrapBoundX \/ dino.x < 0 - WrapBoundX)
                  => /\ dino'.x = IF dino.x > WrapBoundX THEN 0 - WrapBoundX ELSE WrapBoundX
                     /\ camera'.x = FollowedX + 2 * dino'.x
                     /\ camera'.x - dino'.x = FollowedX - dino.x
             /\ (dino.y > WrapBoundY \/ dino.y < 0 - WrapBoundY)
                  => /\ dino'.y = IF dino.y > WrapBoundY THEN 0 - WrapBoundY ELSE WrapBoundY
                     /\ camera'.y = FollowedY + 2 * dino'.y
                     /\ camera'.y - dino'.y = FollowedY - dino.y]_vars

\* C27: a player past 0.9 of a level bound is put on the opposite 0.9 bound
\* and the camera shifted by twice that bound; the offset of the camera from
\* the player changes by the distance the player had gone past the bound.
\* Within the bounds the wraparound moves neither.
WraparoundShiftsOffsetByOvershoot ==
    [][TrackingStep
          => /\ IF dino.x > WrapBoundX \/ dino.x < 0 - WrapBoundX
                THEN /\ dino'.x = IF dino.x > WrapBoundX THEN 0 - WrapBoundX ELSE WrapBoundX
                     /\ camera'.x = FollowedX + 2 * dino'.x
                     /\ camera'.x - dino'.x = (FollowedX - dino.x) + (dino.x + dino'.x)
                ELSE dino'.x = dino.x /\ camera'.x = FollowedX
             /\ IF dino.y > WrapBoundY \/ dino.y < 0 - WrapBoundY
                THEN /\ dino'.y = IF dino.y > WrapBoundY THEN 0 - WrapBoundY ELSE WrapBoundY
                     /\ camera'.y = FollowedY + 2 * dino'.y
                     /\ camera'.y - dino'.y = (FollowedY - dino.y) + (dino.y + dino'.y)
                ELSE dino'.y = dino.y /\ camera'.y = FollowedY]_vars

\* C27 witness: the tracking step has wrapped a player from past the right
\* bound to the left one and from below the lower bound to the upper one
WrappedOnBothAxes ==
    /\ obs.last = "camera_tracking_system" /\ dino.present /\ camera.present
    /\ dino.x = 0 - WrapBoundX /\ camera.x < 0 /\ parallaxCam[1] > 0
    /\ dino.y = WrapBoundY /\ camera.y > 0 /\ parallaxCam[2] < 0

\* the first obstacle placed in the cached tile k: a tile holds platforms
\* or trees, never both, since an extension needs one of its own kind
FirstObstacle(k) ==
    IF platformTiles[k] # <<>> THEN platformTiles[k][1] ELSE treeTiles[k][1]

\* C28: the first obstacle of every cached tile (i, j) is anchored in that
\* tile, TileKey(anchor) = (i, j): a platform at least 100 units from the
\* left and right edges and 20 from the bottom and top edges, a tree at
\* least 50 and 190.
FirstObstacleInsideItsTile ==
    \A k \in SeqToSet(tileOrder) :
        LET anchor == Centre(FirstObstacle(k))
            left == k[1] * RESOLUTION_WIDTH
            bottom == k[2] * RESOLUTION_HEIGHT
            inset == IF platformTiles[k] # <<>> THEN <<Fx(100), Fx(20)>>
                     ELSE <<Fx(50), Fx(190)>>
        IN  /\ TileKey(anchor[1], anchor[2]) = k
            /\ anchor[1] >= left + inset[1]
            /\ anchor[1] <= left + RESOLUTION_WIDTH - inset[1]
            /\ anchor[2] >= bottom + inset[2]
            /\ anchor[2] <= bottom + RESOLUTION_HEIGHT - inset[2]

\* the pickups spawned or queued for spawning
AllClocks == clocks \cup commands.clocks
AllApples == apples \cup commands.apples

\* box p is the pickup box (half-extent 8) centred dy above the centre of
\* the first obstacle of some cached tile of the given kind
AttachedAbove(p, tiles, dy) ==
    \E k \in SeqToSet(tileOrder) :
        /\ tiles[k] # <<>>
        /\ p = Aabb2d(<<Centre(tiles[k][1])[1], Centre(tiles[k][1])[2] + dy>>, PickupHalf)

\* C29 as claimed: every TimeExtender box is centred 28 units above the
\* centre of its platform and every Apple box 198 units above the centre of
\* its tree, both at the parent's centre.x.
PickupsAt28And198 ==
    /\ \A c \in AllClocks : AttachedAbove(c, platformTiles, Fx(28))
    /\ \A a \in AllApples : AttachedAbove(a, treeTiles, Fx(198))

\* C29: every TimeExtender box is centred 18 units (the platform's
\* half-height 10 plus the pickup's 8) above the centre of its platform and
\* every Apple box 198 units above the centre of its tree, both at the
\* parent's centre.x.
PickupsAt18And198 ==
    /\ \A c \in AllClocks : AttachedAbove(c, platformTiles, Fx(18))
    /\ \A a \in AllApples : AttachedAbove(a, treeTiles, Fx(198))

\* C29 witness: a tick of a session has run in a world with a TimeExtender
\* and an Apple
WorldWithBothPickups ==
    /\ appState = "Game" /\ phase = "begin" /\ obs.ran
    /\ clocks # {} /\ apples # {}

\* C30: once the status of a session is written, no later frame of that
\* session runs the per-tick systems, whatever the input: the timer does
\* not count, the dino does not move, no pickup is collected and no outcome
\* is written again.
NoTickAfterTheOutcome ==
    [][(phase = "begin" /\ phase' = "update" /\ obs.statusSet /\ ~obs'.sessionStart)
          => ~obs'.ran]_vars

\* C31: at most one session-ended signal, SceneChange(GameOver), is sent per
\* session, also when several of the terminal conditions (health gone, timer
\* finished, height reached) hold in the same tick or in consecutive ticks.
AtMostOneSessionEndedSignal == obs.signals <= 1

\* C32: the wraparound never decides the outcome: the status does not become
\* Win in a session in which the character got to its height by being moved
\* from the lower wraparound bound to the upper one.
NoWinByWraparound ==
    [][(gameStatus' = "Win" /\ gameStatus # "Win") => ~obs.wrappedUp]_vars

\* the dino's box and the platform p overlap horizontally (the test of
\* game.rs 982 not taken)
OverX(d, p) == ~(d.aabb.max[1] < p.min[1] \/ d.aabb.min[1] > p.max[1])

\* C33: a falling character never passes through a platform it overlaps
\* horizontally: if the bottom of its box is at or above the platform's top
\* before the landing resolution of a tick, it is not below that top after
\* it, whatever the fall speed.
NeverFallsThroughAPlatform ==
    [][(CanRun("dino_gravity") /\ dino.present)
          => \A n \in DOMAIN PlatformEntities :
                (/\ OverX(dino, PlatformEntities[n])
                 /\ dino.aabb.min[2] >= PlatformEntities[n].max[2])
                    => dino'.aabb.min[2] >= PlatformEntities[n].max[2]]_vars

\* C34: health is reduced at most once per tick: the landing resolution
\* takes the fall damage of the velocity it landed with once, however many
\* platforms qualify for a snap, and nothing else in the tick changes it.
HealthReducedOncePerTick ==
    [][/\ (~CanRun("dino_gravity") /\ dino.present /\ dino'.present)
             => dino'.health = dino.health
       /\ (CanRun("dino_gravity") /\ dino.present)
             => LET v == Integrate(dino, delta).velocity[2]
                IN  dino'.health =
                       IF obs'.snaps >= 1 /\ v < HardLandingSpeed
                       THEN dino.health - 20 * ((Abs(v) \div Fx(500)) - 2)
                       ELSE dino.health]_vars

\* the landing resolution has just snapped a hard-falling dino twice and
\* taken the damage of the fall at 2500, 60, once
HardLandingOnTwoPlatforms ==
    /\ obs.last = "dino_gravity"
    /\ obs.snaps = 2
    /\ obs.preSnapVy = Fx(-2500)
    /\ dino.health = obs.healthAtStart - 60

\* C35: a landing snap never raises the character: each snap takes the
\* bottom of the box from [platform top, platform top + 15) to the platform
\* top and so moves the character, its position and its box, downward by
\* less than 15 units; and a character moving upward (velocity.y > 0) is
\* neither snapped nor set grounded.
SnapLowersByLessThan15 ==
    [][(CanRun("dino_gravity") /\ dino.present)
          => LET moved == Integrate(dino, delta)
             IN  /\ obs'.snaps >= 1
                       => /\ dino'.y <= moved.y
                          /\ moved.y - dino'.y < obs'.snaps * LandingWindow
                          /\ dino'.aabb.min[2] <= moved.aabb.min[2]
                          /\ moved.aabb.min[2] - dino'.aabb.min[2]
                                < obs'.snaps * LandingWindow
                 /\ moved.velocity[2] > 0
                       => /\ obs'.snaps = 0
                          /\ ~dino'.grounded
                          /\ dino'.y = moved.y]_vars

\* the box of d stands on the platform p
StandsOn(d, p) == d.aabb.min[2] = p.max[2] /\ OverX(d, p)

\* C36: a grounded character standing on a platform stays put: while it
\* remains within the platform's horizontal span and no jump starts, every
\* step of a tick leaves position.y, the y-bounds of the box, velocity.y = 0,
\* the grounded state and the health unchanged.
GroundedStaysPut ==
    [][(/\ phase = "update" /\ dino.present /\ dino'.present
        /\ dino.grounded /\ dino.velocity[2] = 0
        /\ ~(CanRun("arrow_move") /\ keys.jump)
        /\ \E n \in DOMAIN PlatformEntities :
              StandsOn(dino, PlatformEntities[n]) /\ OverX(dino', PlatformEntities[n]))
          => /\ dino'.y = dino.y
             /\ dino'.aabb.min[2] = dino.aabb.min[2]
             /\ dino'.aabb.max[2] = dino.aabb.max[2]
             /\ dino'.velocity[2] = 0
             /\ dino'.grounded
             /\ dino'.health = dino.health]_vars

\* C37: from the reset of a session until the start input is given the
\* simulation does not advance: the run state is NotRunning and no tick
\* runs, the timer does not count down, the character does not move, no
\* tile is generated and no status is written; and setup has left the
\* obstacle caches empty, the timer at its full budget and the basket at 0.
WaitsForTheStartInput ==
    /\ [](obs.sessionStart
            => /\ platformTiles = <<>> /\ treeTiles = <<>>
               /\ gameTimer = GameTimerDefault
               /\ appleBasket = 0)
    /\ []((obs.waiting /\ phase = "update") => (gameState = "NotRunning" /\ ~obs.ran))
    /\ [][(obs.waiting /\ obs'.waiting /\ ~obs'.sessionStart)
             => /\ gameTimer' = gameTimer
                /\ dino' = dino
                /\ platformTiles' = platformTiles /\ treeTiles' = treeTiles
                /\ gameStatus' = gameStatus]_vars

\* the half extents of the box a
HalfOf(a) == <<(a.max[1] - a.min[1]) \div 2, (a.max[2] - a.min[2]) \div 2>>

PickupAbove(o, dy) == Aabb2d(<<Centre(o)[1], Centre(o)[2] + dy>>, PickupHalf)

\* the pickups that sit on an obstacle of the cached tile k: time extenders
\* on its platforms, apples on its trees
PickupsOver(k) ==
    {c \in AllClocks : \E n \in DOMAIN platformTiles[k] :
                          c = PickupAbove(platformTiles[k][n], Fx(18))}
    \cup {a \in AllApples : \E n \in DOMAIN treeTiles[k] :
                               a = PickupAbove(treeTiles[k][n], Fx(198))}

\* C39: every generated tile carries at most one pickup, and every pickup
\* sits on the first obstacle of its tile, a time extender on a first
\* platform or an apple on a first tree; obstacles placed by extension carry
\* none.
AtMostOnePickupPerTile ==
    /\ \A k \in SeqToSet(tileOrder) : Cardinality(PickupsOver(k)) <= 1
    /\ \A c \in AllClocks :
          \E k \in SeqToSet(tileOrder) :
             platformTiles[k] # <<>> /\ c = PickupAbove(platformTiles[k][1], Fx(18))
    /\ \A a \in AllApples :
          \E k \in SeqToSet(tileOrder) :
             treeTiles[k] # <<>> /\ a = PickupAbove(treeTiles[k][1], Fx(198))

\* a tile filled by extensions carries its one pickup
FullTileWithOnePickup ==
    \E k \in SeqToSet(tileOrder) :
       /\ Len(platformTiles[k]) + Len(treeTiles[k]) >= SoftCap
       /\ Cardinality(PickupsOver(k)) = 1

\* C40: the frame index is always within 0..25. In arrow_move an attack
\* start shows 18; an attack in progress in the air steps by at most one
\* frame, never past 24, and leaves 24 for 23; the air without an attack
\* shows 25 or 23; on the ground a frame tick of the walk leads into 0..11
\* (11 wraps to 0) and a frame tick of the idle state into 12..17, whatever
\* frame an attack in progress had reached when the motion state changed.
FrameIndexInRange ==
    /\ [](dino.present => dino.index \in 0..25)
    /\ [][(CanRun("arrow_move") /\ dino.present)
             => LET d2 == ContinueJump(StartJump(dino, keys), keys, delta)
                    airborne == d2.jumping \/ ~d2.grounded
                    starts == keys.jump /\ ~d2.attacking /\ d2.can_attack
                    tick == dino.timer + delta >= FrameTimerMs
                IN  IF airborne /\ starts THEN dino'.index = 18
                    ELSE IF airborne /\ d2.attacking
                    THEN /\ dino'.index <= 24
                         /\ \/ dino'.index \in {dino.index, dino.index + 1}
                            \/ dino.index = 24 /\ dino'.index = 23
                    ELSE IF airborne THEN dino'.index \in {23, 25}
                    ELSE IF ~tick THEN dino'.index = dino.index
                    ELSE IF keys.dir # 0
                    THEN /\ dino'.index \in 0..11
                         /\ dino.index = 11 => dino'.index = 0
                    ELSE dino'.index \in 12..17]_vars

\* the dino stands, an idle frame on show, while the attack it landed with
\* is still in progress
IdleFrameDuringAnAttack ==
    /\ obs.last = "arrow_move"
    /\ dino.grounded /\ ~dino.jumping
    /\ dino.attacking
    /\ dino.index \in 12..17

====
